---------------------------- MODULE Spec2Model ----------------------------
(***************************************************************************)
(* A model of the blawktrust columnar engine: the orientation algebra      *)
(* (table/orientation.rs, table/d4_compose.rs), the pipeline planner and   *)
(* fused executor (pipeline/*.rs) and the masked / word-wise kernels       *)
(* (builtins/kernels_*.rs, table/bitmap.rs).                               *)
(*                                                                         *)
(* Each component has its own specification over the shared variables:     *)
(*   SpecD4     compose and map_ij applied to pairs of orientations        *)
(*   SpecPlan   Planner::plan run step by step over a PipeIR               *)
(*   SpecFuse   Planner::plan followed by Executor::execute on op chains   *)
(*   SpecKernel one call of a masked or word-wise kernel                   *)
(***************************************************************************)
EXTENDS Integers, Sequences, FiniteSets, TLC

VARIABLES
    \* ---- orientation algebra (SpecD4)
    d4_a, d4_b,        \* the two orientations handed to compose
    d4_grid,           \* [n, i, j]: a coordinate (i, j) of an n x n grid
    d4_c,              \* Option<Ori> returned by compose: <<>> or <<ori>>
    d4_seq,            \* b.map_ij(a.map_ij(i, j)), as <<>> or <<point>>
    d4_direct,         \* compose(a, b).map_ij(i, j), as <<>> or <<point>>
    d4_done,           \* which of the three computations have run
    \* ---- planner and executor (SpecPlan, SpecFuse)
    ir,                \* PipeIR.steps
    ip,                \* index of the next step of ir to process
    current_ori,       \* Planner.current_ori
    current_segment,   \* Planner.current_segment: <<>> or <<segment>>
    segments,          \* Planner.segments
    plan,              \* ExecutionPlan returned by Planner::plan: <<>> or <<segments>>
    op_trace,          \* history: per processed Op step, its ir index and orientation
    ori_trace,         \* history: current_ori before each processed step
    input,             \* the Table handed to Executor::execute
    current_value,     \* Executor::execute's current_value (a Table)
    ep,                \* index of the next segment to execute
    stats,             \* Executor.stats
    outcome,           \* "none" | "ok" | "err": result of Executor::execute
    calls,             \* calls of execute made on this Executor, this one included
    stats0,            \* history: Executor.stats when this call of execute began
    \* ---- masked and word-wise kernels (SpecKernel)
    k_n,               \* length of the columns and buffers of the call
    k_out0,            \* the out buffer as handed to the kernel
    k_valid0,          \* the out_valid bitmap as handed to the kernel
    k_x_valid,         \* validity of the first input (x or a)
    k_y_valid,         \* validity of the second input (y or b), binary kernels
    k_lag,             \* lag of the call, lagged kernels
    k_out,             \* the out buffer after the call
    k_out_valid,       \* the out_valid bitmap after the call
    k_call,            \* "none", or the kernel that was called
    \* ---- compose on triples and TableView::compose_orientation (SpecGroup)
    g_a, g_b, g_c,     \* the three orientations
    g_ab,              \* compose(a, b)
    g_bc,              \* compose(b, c)
    g_ab_c,            \* compose(ab, c)
    g_a_bc,            \* compose(a, bc)
    g_view,            \* TableView::with_ori(table, a).compose_orientation(b)
    g_done,            \* which of the calls have been made
    \* ---- builtins/scratch.rs (SpecScratch)
    f64_bufs,          \* Scratch.f64_bufs: the pooled Vec<f64>, last = top
    bitmap_bufs,       \* Scratch.bitmap_bufs: the pooled Bitmaps, last = top
    held_f64,          \* f64 buffers leased to the caller, in order of lease
    held_bm,           \* bitmaps leased to the caller, in order of lease
    s_prog,            \* the requests of the warm-up iteration, in order
    s_pc,              \* position in s_prog of the next request of a later iteration
    s_iter,            \* 0 in the warm-up iteration, then 1, 2, ...
    s_fresh,           \* fresh allocations made so far in this iteration
    s_last,            \* the last request with the pool before it and its result
    \* ---- table/bitmap.rs operations (SpecBitmap)
    b_len,             \* the length the three bitmaps were created with
    b_a, b_b,          \* two bitmaps, inputs of and_into / or_into and of kernels
    b_out,             \* the out bitmap of and_into / or_into and of kernels
    b_steps,           \* operations applied since construction
    b_last,            \* the last operation, with the bitmap it changed before it
    \* ---- builtins/rolling_moments.rs (SpecRoll)
    r_x,               \* the input slice x
    r_validity,        \* the validity argument: <<>> or <<bitmap>>
    r_window,          \* the window argument
    r_minp,            \* the min_periods argument: <<>> or <<count>>
    r_mask,            \* the MomentsMask, as the set of the moments it selects
    r_out,             \* <<>>, or <<the RollingMomentsOutput for x>>
    r_change,          \* how the second input differs from x: from position p on
    r_x2,              \* a second input slice, equal to x before position p
    r_validity2,       \* the validity argument of the second call
    r_out2,            \* <<>>, or <<the RollingMomentsOutput for the second input>>
    \* ---- builtins/ori_ops.rs (SpecOri)
    o_view,            \* the TableView an operation is applied to
    o_call,            \* "none", or the operation that was called
    o_result,          \* <<>>, or <<the outcome of the call>>
    \* ---- ColwiseKernel::from_segment and ColwiseKernel::execute (SpecSeg)
    fs_seg,            \* the Segment handed to from_segment
    fs_table,          \* the Table handed to execute
    fs_called,         \* whether from_segment has been called
    fs_kernel,         \* the Option<ColwiseKernel> returned: <<>> or <<ops>>
    fs_result          \* <<>>, or <<the Table returned by execute>>

d4vars   == <<d4_a, d4_b, d4_grid, d4_c, d4_seq, d4_direct, d4_done>>
planvars == <<ir, ip, current_ori, current_segment, segments, plan, op_trace, ori_trace>>
execvars == <<input, current_value, ep, stats, outcome, calls, stats0>>
kernvars == <<k_n, k_out0, k_valid0, k_x_valid, k_y_valid, k_lag, k_out, k_out_valid, k_call>>
grpvars  == <<g_a, g_b, g_c, g_ab, g_bc, g_ab_c, g_a_bc, g_view, g_done>>
scrvars  == <<f64_bufs, bitmap_bufs, held_f64, held_bm, s_prog, s_pc, s_iter, s_fresh, s_last>>
bmvars   == <<b_len, b_a, b_b, b_out, b_steps, b_last>>
rollvars == <<r_x, r_validity, r_window, r_minp, r_mask, r_out, r_change, r_x2,
              r_validity2, r_out2>>
orivars  == <<o_view, o_call, o_result>>
segvars  == <<fs_seg, fs_table, fs_called, fs_kernel, fs_result>>
vars     == <<d4vars, planvars, execvars, kernvars, grpvars, scrvars, bmvars,
              rollvars, orivars, segvars>>

\* what the actions of one component leave alone
not_d4   == <<planvars, execvars, kernvars, grpvars, scrvars, bmvars, rollvars, orivars, segvars>>
not_plan == <<d4vars, execvars, kernvars, grpvars, scrvars, bmvars, rollvars, orivars, segvars>>
not_exec == <<d4vars, kernvars, grpvars, scrvars, bmvars, rollvars, orivars, segvars>>
not_kern == <<d4vars, planvars, execvars, grpvars, scrvars, bmvars, rollvars, orivars, segvars>>
not_grp  == <<d4vars, planvars, execvars, kernvars, scrvars, bmvars, rollvars, orivars, segvars>>
not_scr  == <<d4vars, planvars, execvars, kernvars, grpvars, bmvars, rollvars, orivars, segvars>>
not_roll == <<d4vars, planvars, execvars, kernvars, grpvars, scrvars, bmvars, orivars, segvars>>
not_ori  == <<d4vars, planvars, execvars, kernvars, grpvars, scrvars, bmvars, rollvars, segvars>>
not_seg  == <<d4vars, planvars, execvars, kernvars, grpvars, scrvars, bmvars, rollvars,
              orivars>>
not_bm   == <<d4vars, planvars, execvars, kernvars, grpvars, scrvars, rollvars, orivars, segvars>>

-----------------------------------------------------------------------------
(* Bounds of the model *)

MaxGrid == 3       \* side of the largest square grid map_ij is applied to
MaxSteps == 3      \* longest PipeIR planned in SpecPlan

-----------------------------------------------------------------------------
(* table/orientation.rs: Ori, OriClass *)

D4(s, fi, fj) == [tag |-> "D4", swap |-> s, flip_i |-> fi, flip_j |-> fj]
Each == [tag |-> "Each", swap |-> FALSE, flip_i |-> FALSE, flip_j |-> FALSE]
Real == [tag |-> "Real", swap |-> FALSE, flip_i |-> FALSE, flip_j |-> FALSE]

ORI_H  == D4(FALSE, FALSE, FALSE)
ORI_Z  == D4(TRUE, FALSE, FALSE)
ORI_X  == Each
ORI_R  == Real
ORI_N  == D4(FALSE, TRUE, FALSE)
ORI__N == D4(FALSE, FALSE, TRUE)
ORI__H == D4(FALSE, TRUE, TRUE)
ORI_S  == D4(TRUE, FALSE, FALSE)
ORI__Z == D4(TRUE, TRUE, FALSE)
ORI__S == D4(TRUE, FALSE, TRUE)

D4Oris == {D4(s, fi, fj) : s \in BOOLEAN, fi \in BOOLEAN, fj \in BOOLEAN}
AllOris == D4Oris \cup {Each, Real}

\* Ori::map_ij: logical (i, j) to physical (row, col); usize arithmetic, so
\* (nr - 1) - ii is only defined when ii <= nr - 1.
map_ij(ori, nr, nc, i, j) ==
    IF ori.tag = "D4"
    THEN LET ii0 == IF ori.swap THEN j ELSE i
             jj0 == IF ori.swap THEN i ELSE j
             ii  == IF ori.flip_i THEN (nr - 1) - ii0 ELSE ii0
             jj  == IF ori.flip_j THEN (nc - 1) - jj0 ELSE jj0
         IN  <<ii, jj>>
    ELSE <<i, j>>

\* Ori::class
class(ori) ==
    CASE ori.tag = "D4" /\ ~ori.swap -> "ColwiseLike"
      [] ori.tag = "D4" /\ ori.swap  -> "RowwiseLike"
      [] ori.tag = "Each"            -> "Each"
      [] ori.tag = "Real"            -> "Real"

-----------------------------------------------------------------------------
(* table/d4_compose.rs *)

None == <<>>
Some(x) == <<x>>

\* An encoding that gives Each and Real the id of the identity.
d4_to_id_total(ori) ==
    IF ori.tag = "D4"
    THEN Some((IF ori.swap THEN 4 ELSE 0) + (IF ori.flip_i THEN 2 ELSE 0)
              + (IF ori.flip_j THEN 1 ELSE 0))
    ELSE Some(0)

\* d4_to_id: (swap<<2) | (flip_i<<1) | flip_j, None for Each / Real
d4_to_id(ori) ==
    IF ori.tag = "D4"
    THEN Some((IF ori.swap THEN 4 ELSE 0) + (IF ori.flip_i THEN 2 ELSE 0)
              + (IF ori.flip_j THEN 1 ELSE 0))
    ELSE None

\* id_to_d4: swap = id & 4, flip_i = id & 2, flip_j = id & 1
id_to_d4(id) == D4((id \div 4) % 2 = 1, (id \div 2) % 2 = 1, id % 2 = 1)

\* The table with D4_COMP[4][4] = 4: the transpose taken to be idempotent
\* instead of an involution.
D4_COMP_swap_idempotent ==
    << <<0, 1, 2, 3, 4, 5, 6, 7>>,
       <<1, 0, 3, 2, 5, 4, 7, 6>>,
       <<2, 3, 0, 1, 6, 7, 4, 5>>,
       <<3, 2, 1, 0, 7, 6, 5, 4>>,
       <<4, 6, 5, 7, 4, 2, 1, 3>>,
       <<5, 7, 4, 6, 1, 3, 0, 2>>,
       <<6, 4, 7, 5, 2, 0, 3, 1>>,
       <<7, 5, 6, 4, 3, 1, 2, 0>> >>

\* D4_COMP[a][b], rows and columns 0..7 (stored 1-based here)
D4_COMP ==
    << <<0, 1, 2, 3, 4, 5, 6, 7>>,
       <<1, 0, 3, 2, 5, 4, 7, 6>>,
       <<2, 3, 0, 1, 6, 7, 4, 5>>,
       <<3, 2, 1, 0, 7, 6, 5, 4>>,
       <<4, 6, 5, 7, 0, 2, 1, 3>>,
       <<5, 7, 4, 6, 1, 3, 0, 2>>,
       <<6, 4, 7, 5, 2, 0, 3, 1>>,
       <<7, 5, 6, 4, 3, 1, 2, 0>> >>

\* compose(a, b): None if either is not D4, else the table entry decoded
compose(a, b) ==
    LET id_a == d4_to_id(a)
        id_b == d4_to_id(b)
    IN  IF id_a = None \/ id_b = None
        THEN None
        ELSE Some(id_to_d4(D4_COMP[id_a[1] + 1][id_b[1] + 1]))

-----------------------------------------------------------------------------
(* SpecD4: compose, and map_ij applied in sequence and through the composite *)

Grids == {[n |-> n, i |-> i, j |-> j] : n \in 1..MaxGrid, i \in 0..(MaxGrid - 1),
                                        j \in 0..(MaxGrid - 1)}

D4Init ==
    /\ d4_a \in AllOris
    /\ d4_b \in AllOris
    /\ d4_grid \in {g \in Grids : g.i < g.n /\ g.j < g.n}
    /\ d4_c = None
    /\ d4_seq = None
    /\ d4_direct = None
    /\ d4_done = {}

D4Idle ==
    /\ d4_a = ORI_H
    /\ d4_b = ORI_H
    /\ d4_grid = [n |-> 1, i |-> 0, j |-> 0]
    /\ d4_c = None
    /\ d4_seq = None
    /\ d4_direct = None
    /\ d4_done = {}

\* let c = compose(a, b)
D4Compose ==
    /\ "compose" \notin d4_done
    /\ d4_c' = compose(d4_a, d4_b)
    /\ d4_done' = d4_done \cup {"compose"}
    /\ UNCHANGED <<d4_a, d4_b, d4_grid, d4_seq, d4_direct, not_d4>>

\* ori_b.map_ij(n, n, ori_a.map_ij(n, n, i, j)) (generate_composition_table)
D4MapSeq ==
    /\ "seq" \notin d4_done
    /\ LET p == map_ij(d4_a, d4_grid.n, d4_grid.n, d4_grid.i, d4_grid.j)
       IN  d4_seq' = Some(map_ij(d4_b, d4_grid.n, d4_grid.n, p[1], p[2]))
    /\ d4_done' = d4_done \cup {"seq"}
    /\ UNCHANGED <<d4_a, d4_b, d4_grid, d4_c, d4_direct, not_d4>>

\* ori_c.map_ij(n, n, i, j) for c = compose(a, b).unwrap()
D4MapDirect ==
    /\ "compose" \in d4_done
    /\ "direct" \notin d4_done
    /\ d4_c # None
    /\ d4_direct' = Some(map_ij(d4_c[1], d4_grid.n, d4_grid.n, d4_grid.i, d4_grid.j))
    /\ d4_done' = d4_done \cup {"direct"}
    /\ UNCHANGED <<d4_a, d4_b, d4_grid, d4_c, d4_seq, not_d4>>

-----------------------------------------------------------------------------
(* pipeline/ir.rs: OpId, Step *)

OpIds == {"Dlog", "W5", "Cs1", "AddConst", "SubConst", "MulConst", "DivConst",
          "Sum", "Mean", "Generic"}

OriSet(o)     == [step |-> "OriSet", ori |-> o, name |-> "", args |-> <<>>]
OriRel(o)     == [step |-> "OriRel", ori |-> o, name |-> "", args |-> <<>>]
Op(name, args) == [step |-> "Op", ori |-> ORI_H, name |-> name, args |-> args]

(* pipeline/execution_plan.rs: OpStep, Segment *)

OpStep(name, args) == [name |-> name, args |-> args]

\* Segment::new
Segment_new(kind, start_ori) == [kind |-> kind, start_ori |-> start_ori, ops |-> <<>>]

\* A push that puts the op in front.
Segment_push_front(seg, op) == [seg EXCEPT !.ops = <<op>> \o @]

\* Segment::push
Segment_push(seg, op) == [seg EXCEPT !.ops = Append(@, op)]

-----------------------------------------------------------------------------
(* pipeline/planner.rs *)

\* A reducer test that forgets Mean.
is_reducer_sum_only(op) == op = "Sum"

\* Planner::is_reducer
is_reducer(op) == op \in {"Sum", "Mean"}

\* Planner::requires_boundary
requires_boundary(op) == is_reducer(op)

\* A kind derived from the swap flag the wrong way round.
orientation_to_segment_kind_swapped(ori) ==
    CASE class(ori) = "ColwiseLike" -> "Rowwise"
      [] class(ori) = "RowwiseLike" -> "Colwise"
      [] class(ori) = "Each"        -> "Each"
      [] class(ori) = "Real"        -> "Real"

\* Planner::orientation_to_segment_kind
orientation_to_segment_kind(ori) ==
    CASE class(ori) = "ColwiseLike" -> "Colwise"
      [] class(ori) = "RowwiseLike" -> "Rowwise"
      [] class(ori) = "Each"        -> "Each"
      [] class(ori) = "Real"        -> "Real"

\* Planner::start_segment: the value current_segment takes
start_segment(ori) == Some(Segment_new(orientation_to_segment_kind(ori), ori))

\* A flush that pushes whatever take() yields, an absent segment as a
\* default (empty) one.
flush_segment_default(cur, segs) ==
    Append(segs, IF cur # None THEN cur[1] ELSE Segment_new("Colwise", ORI_H))

\* Planner::flush_segment: the value segments takes (current_segment becomes
\* None in every case, by take())
flush_segment(cur, segs) ==
    IF cur # None /\ cur[1].ops # <<>> THEN Append(segs, cur[1]) ELSE segs

\* Planner::new
PlannerNew ==
    /\ ip = 1
    /\ current_ori = ORI_H
    /\ current_segment = None
    /\ segments = <<>>
    /\ plan = None
    /\ op_trace = <<>>
    /\ ori_trace = <<>>

\* process_step, Step::OriSet: always flush, then set the orientation
ProcessOriSet ==
    /\ plan = None
    /\ ip <= Len(ir)
    /\ ir[ip].step = "OriSet"
    /\ segments' = flush_segment(current_segment, segments)
    /\ current_segment' = None
    /\ current_ori' = ir[ip].ori
    /\ ori_trace' = Append(ori_trace, current_ori)
    /\ ip' = ip + 1
    /\ UNCHANGED <<ir, plan, op_trace, not_plan>>

\* An OriRel step that flushes on every composition, class change or not.
OriRelFlush_always(old_ori, new_ori) == TRUE

\* An OriRel step that never flushes when the composition is defined.
OriRelFlush_never(old_ori, new_ori) == FALSE

\* process_step, Step::OriRel, composition defined: flush iff the class changed
OriRelFlush(old_ori, new_ori) == class(old_ori) # class(new_ori)

\* process_step, Step::OriRel
ProcessOriRel ==
    /\ plan = None
    /\ ip <= Len(ir)
    /\ ir[ip].step = "OriRel"
    /\ LET c == compose(current_ori, ir[ip].ori)
       IN  IF c # None
           THEN /\ IF OriRelFlush(current_ori, c[1])
                   THEN /\ segments' = flush_segment(current_segment, segments)
                        /\ current_segment' = None
                   ELSE UNCHANGED <<segments, current_segment>>
                /\ current_ori' = c[1]
           ELSE /\ segments' = flush_segment(current_segment, segments)
                /\ current_segment' = None
                /\ current_ori' = ir[ip].ori
    /\ ori_trace' = Append(ori_trace, current_ori)
    /\ ip' = ip + 1
    /\ UNCHANGED <<ir, plan, op_trace, not_plan>>

\* process_step, Step::Op
ProcessOp ==
    /\ plan = None
    /\ ip <= Len(ir)
    /\ ir[ip].step = "Op"
    /\ LET name == ir[ip].name
           \* if self.requires_boundary(name) { self.flush_segment(); }
           segs1 == IF requires_boundary(name)
                    THEN flush_segment(current_segment, segments) ELSE segments
           cur1  == IF requires_boundary(name) THEN None ELSE current_segment
           \* if self.current_segment.is_none() { self.start_segment(); }
           cur2  == IF cur1 = None THEN start_segment(current_ori) ELSE cur1
           \* seg.push(OpStep { name, args })
           cur3  == Some(Segment_push(cur2[1], OpStep(name, ir[ip].args)))
       IN  \* if self.is_reducer(name) { self.flush_segment(); }
           IF is_reducer(name)
           THEN /\ segments' = flush_segment(cur3, segs1)
                /\ current_segment' = None
           ELSE /\ segments' = segs1
                /\ current_segment' = cur3
    /\ op_trace' = Append(op_trace, [idx |-> ip, ori |-> current_ori])
    /\ ori_trace' = Append(ori_trace, current_ori)
    /\ ip' = ip + 1
    /\ UNCHANGED <<ir, current_ori, plan, not_plan>>

\* Planner::plan after the loop: flush the remaining segment, return the plan
FinishPlan ==
    /\ plan = None
    /\ ip = Len(ir) + 1
    /\ segments' = flush_segment(current_segment, segments)
    /\ current_segment' = None
    /\ plan' = Some(flush_segment(current_segment, segments))
    /\ UNCHANGED <<ir, ip, current_ori, op_trace, ori_trace, not_plan>>

-----------------------------------------------------------------------------
(* f64 values.  A value is NaN, +inf, -inf or a finite number; the finite     *)
(* numbers of the model are the integers (signed zero is not distinguished).  *)

NaN  == [k |-> "nan", v |-> 0]
PInf == [k |-> "pinf", v |-> 0]
NInf == [k |-> "ninf", v |-> 0]
Fin(v) == [k |-> "fin", v |-> v]

\* f64::is_nan
is_nan(x) == x.k = "nan"

\* x <= 0.0 (false for NaN)
le_zero(x) == x.k = "ninf" \/ (x.k = "fin" /\ x.v <= 0)

\* IEEE-754 negation
f_neg(x) ==
    CASE x.k = "nan"  -> NaN
      [] x.k = "pinf" -> NInf
      [] x.k = "ninf" -> PInf
      [] x.k = "fin"  -> Fin(0 - x.v)

\* IEEE-754 x + y
f_add(x, y) ==
    CASE x.k = "nan" \/ y.k = "nan"      -> NaN
      [] x.k = "pinf" /\ y.k = "ninf"    -> NaN
      [] x.k = "ninf" /\ y.k = "pinf"    -> NaN
      [] x.k = "pinf" \/ y.k = "pinf"    -> PInf
      [] x.k = "ninf" \/ y.k = "ninf"    -> NInf
      [] OTHER                           -> Fin(x.v + y.v)

\* IEEE-754 x - y
f_sub(x, y) == f_add(x, f_neg(y))

f_sign(x) ==
    CASE x.k = "pinf" -> 1
      [] x.k = "ninf" -> -1
      [] x.k = "fin"  -> IF x.v > 0 THEN 1 ELSE IF x.v < 0 THEN -1 ELSE 0
      [] OTHER        -> 0

f_inf(sign) == IF sign > 0 THEN PInf ELSE NInf

\* IEEE-754 x * y
f_mul(x, y) ==
    CASE x.k = "nan" \/ y.k = "nan"      -> NaN
      [] x.k = "fin" /\ y.k = "fin"      -> Fin(x.v * y.v)
      [] f_sign(x) = 0 \/ f_sign(y) = 0  -> NaN          \* inf * 0
      [] OTHER                           -> f_inf(f_sign(x) * f_sign(y))

\* Integer quotient rounded toward zero: the finite grid's rounding of x / y
trunc_div(a, b) ==
    LET q == (IF a < 0 THEN 0 - a ELSE a) \div (IF b < 0 THEN 0 - b ELSE b)
    IN  IF (a < 0) = (b < 0) THEN q ELSE 0 - q

\* IEEE-754 x / y
f_div(x, y) ==
    CASE x.k = "nan" \/ y.k = "nan"                    -> NaN
      [] x.k # "fin" /\ y.k # "fin"                    -> NaN         \* inf / inf
      [] x.k # "fin" /\ f_sign(y) = 0                  -> x           \* inf / 0
      [] x.k # "fin"                                   -> f_inf(f_sign(x) * f_sign(y))
      [] y.k # "fin"                                   -> Fin(0)      \* finite / inf
      [] y.v = 0 /\ x.v = 0                            -> NaN         \* 0 / 0
      [] y.v = 0                                       -> f_inf(f_sign(x))
      [] OTHER                                         -> Fin(trunc_div(x.v, y.v))

RECURSIVE ilog2(_)
\* floor(log2 v) for v >= 1
ilog2(v) == IF v <= 1 THEN 0 ELSE 1 + ilog2(v \div 2)

\* f64::ln: NaN below zero, -inf at zero, +inf at +inf; on the positive finite
\* numbers the logarithm is taken in base 2 and rounded down to the grid.
f_ln(x) ==
    CASE x.k = "nan"  -> NaN
      [] x.k = "ninf" -> NaN
      [] x.k = "pinf" -> PInf
      [] x.v < 0      -> NaN
      [] x.v = 0      -> NInf
      [] OTHER        -> Fin(ilog2(x.v))

\* `as usize` on an f64 argument of the integer grid: saturating at 0
as_usize(c) == IF c < 0 THEN 0 ELSE c

-----------------------------------------------------------------------------
(* table/column.rs, table/table.rs *)

F64Column(data)  == [variant |-> "F64", data |-> data]
DateColumn(data) == [variant |-> "Date", data |-> data]
TimestampColumn(data) == [variant |-> "Timestamp", data |-> data]

\* Table::new (names.len() == columns.len() is asserted)
Table_new(names, columns) == [names |-> names, columns |-> columns]

-----------------------------------------------------------------------------
(* builtins/kernels_masked.rs, builtins/ops.rs: the standalone dlog *)

\* dlog_no_nulls: the contents of out after the call (x is 1-based here)
dlog_no_nulls(x, lag) ==
    LET n == Len(x)
    IN  IF lag = 0 \/ lag >= n
        THEN [i \in 1..n |-> NaN]
        ELSE [i \in 1..n |->
                 IF i <= lag THEN NaN ELSE f_sub(f_ln(x[i]), f_ln(x[i - lag]))]

\* dlog_column on an F64 column
dlog_column(data, lag) == dlog_no_nulls(data, lag)

-----------------------------------------------------------------------------
(* pipeline/colwise_fused.rs *)

FusableOps == {"Dlog", "AddConst", "SubConst", "MulConst", "DivConst", "W5", "Cs1"}

\* A whitelist that forgets the cumulative sum.
is_fusable_op_no_cs1(op) == op \in FusableOps \ {"Cs1"}

\* execution_plan.rs is_fusable_op
is_fusable_op(op) == op \in FusableOps

\* Segment::is_fusable
is_fusable(seg) ==
    /\ seg.kind = "Colwise"
    /\ \A k \in 1..Len(seg.ops) : is_fusable_op(seg.ops[k].name)

\* args.get(0).copied().unwrap_or(d)
arg0_or(args, d) == IF Len(args) >= 1 THEN args[1] ELSE d

\* ColwiseKernel::from_segment, one op
fused_op_of(op) ==
    CASE op.name = "Dlog"     -> [op |-> "Dlog", period |-> as_usize(arg0_or(op.args, 1)), c |-> 0]
      [] op.name = "AddConst" -> [op |-> "AddConst", period |-> 0, c |-> arg0_or(op.args, 0)]
      [] op.name = "SubConst" -> [op |-> "SubConst", period |-> 0, c |-> arg0_or(op.args, 0)]
      [] op.name = "MulConst" -> [op |-> "MulConst", period |-> 0, c |-> arg0_or(op.args, 1)]
      [] op.name = "DivConst" -> [op |-> "DivConst", period |-> 0, c |-> arg0_or(op.args, 1)]
      [] op.name = "W5"       -> [op |-> "WMean5", period |-> 0, c |-> 0]
      [] op.name = "Cs1"      -> [op |-> "Cumsum", period |-> 0, c |-> 0]

\* ColwiseKernel::from_segment: None, or Some(the kernel's ops)
from_segment(seg) ==
    IF ~is_fusable(seg)
    THEN None
    ELSE Some([k \in 1..Len(seg.ops) |-> fused_op_of(seg.ops[k])])

WINDOW == 5

RECURSIVE wmean5_sum(_, _, _)
\* the inner loop of WMean5 at 1-based position i: <<sum, count>> over j in 0..WINDOW-1
wmean5_sum(data, i, j) ==
    IF j = WINDOW
    THEN <<Fin(0), 0>>
    ELSE LET rest == wmean5_sum(data, i, j + 1)
             val  == data[i - j]
         IN  IF is_nan(val) THEN rest ELSE <<f_add(rest[1], val), rest[2] + 1>>

RECURSIVE cumsum_run(_, _)
\* the running sum of Cumsum after the first i elements
cumsum_run(data, i) ==
    IF i = 0 THEN Fin(0)
    ELSE IF is_nan(data[i]) THEN cumsum_run(data, i - 1)
         ELSE f_add(cumsum_run(data, i - 1), data[i])

\* ColwiseKernel::apply_op
apply_op(op, data) ==
    LET n == Len(data)
    IN  CASE op.op = "Dlog" ->
               [i \in 1..n |->
                   IF i - 1 < op.period
                   THEN NaN
                   ELSE LET curr == data[i]
                            prev == data[i - op.period]
                        IN  IF is_nan(curr) \/ is_nan(prev) \/ le_zero(curr) \/ le_zero(prev)
                            THEN NaN
                            ELSE f_sub(f_ln(curr), f_ln(prev))]
          [] op.op = "AddConst" ->
               [i \in 1..n |-> IF is_nan(data[i]) THEN NaN ELSE f_add(data[i], Fin(op.c))]
          [] op.op = "SubConst" ->
               [i \in 1..n |-> IF is_nan(data[i]) THEN NaN ELSE f_sub(data[i], Fin(op.c))]
          [] op.op = "MulConst" ->
               [i \in 1..n |-> IF is_nan(data[i]) THEN NaN ELSE f_mul(data[i], Fin(op.c))]
          [] op.op = "DivConst" ->
               [i \in 1..n |-> IF is_nan(data[i]) THEN NaN ELSE f_div(data[i], Fin(op.c))]
          [] op.op = "WMean5" ->
               [i \in 1..n |->
                   IF i < WINDOW
                   THEN NaN
                   ELSE LET sc == wmean5_sum(data, i, 0)
                        IN  IF sc[2] > 0 THEN f_div(sc[1], Fin(sc[2])) ELSE NaN]
          [] op.op = "Cumsum" ->
               [i \in 1..n |-> IF is_nan(data[i]) THEN NaN ELSE cumsum_run(data, i)]

RECURSIVE apply_ops(_, _, _)
\* the loop of execute_column: ops[k..] applied in sequence
apply_ops(ops, k, data) ==
    IF k > Len(ops) THEN data ELSE apply_ops(ops, k + 1, apply_op(ops[k], data))

\* ColwiseKernel::execute_column
execute_column(ops, data) == IF Len(data) = 0 THEN <<>> ELSE apply_ops(ops, 1, data)

\* An execute that runs the kernel on every column, temporal ones included.
kernel_execute_every_column(ops, table) ==
    Table_new(table.names,
              [c \in 1..Len(table.columns) |->
                  F64Column(execute_column(ops, table.columns[c].data))])

\* ColwiseKernel::execute
kernel_execute(ops, table) ==
    Table_new(table.names,
              [c \in 1..Len(table.columns) |->
                  IF table.columns[c].variant = "F64"
                  THEN F64Column(execute_column(ops, table.columns[c].data))
                  ELSE table.columns[c]])

-----------------------------------------------------------------------------
(* pipeline/executor.rs *)

\* ExecutionStats::default
StatsDefault ==
    [segments_executed |-> 0, segments_fused |-> 0, segments_unfused |-> 0,
     allocations |-> 0]

\* Executor::new, and the start of Executor::execute
ExecutorNew ==
    /\ current_value = input
    /\ ep = 1
    /\ stats = StatsDefault
    /\ outcome = "none"
    /\ calls = 1
    /\ stats0 = StatsDefault

\* An execute_colwise_segment whose unfused fallback passes the table through.
ExecColwise_skips_unfused ==
    /\ plan # None
    /\ outcome = "none"
    /\ ep <= Len(plan[1])
    /\ plan[1][ep].kind = "Colwise"
    /\ LET kernel == from_segment(plan[1][ep])
       IN  IF kernel # None
           THEN /\ current_value' = kernel_execute(kernel[1], current_value)
                /\ stats' = [stats EXCEPT
                                !.segments_fused = @ + 1,
                                !.allocations = @ + Len(current_value.columns),
                                !.segments_executed = @ + 1]
           ELSE /\ stats' = [stats EXCEPT !.segments_unfused = @ + 1,
                                          !.segments_executed = @ + 1]
                /\ UNCHANGED current_value
    /\ ep' = ep + 1
    /\ UNCHANGED <<outcome, input, calls, stats0, planvars, not_exec>>

\* execute_segment on a Colwise segment (execute_colwise_segment): fuse, or
\* fall back to execute_unfused_colwise, which returns Err
ExecColwise ==
    /\ plan # None
    /\ outcome = "none"
    /\ ep <= Len(plan[1])
    /\ plan[1][ep].kind = "Colwise"
    /\ LET kernel == from_segment(plan[1][ep])
       IN  IF kernel # None
           THEN /\ current_value' = kernel_execute(kernel[1], current_value)
                /\ stats' = [stats EXCEPT
                                !.segments_fused = @ + 1,
                                !.allocations = @ + Len(current_value.columns),
                                !.segments_executed = @ + 1]
                /\ ep' = ep + 1
                /\ outcome' = outcome
           ELSE /\ stats' = [stats EXCEPT !.segments_unfused = @ + 1]
                /\ outcome' = "err"
                /\ UNCHANGED <<current_value, ep>>
    /\ UNCHANGED <<input, calls, stats0, planvars, not_exec>>

\* execute_segment on a Rowwise segment (execute_rowwise_segment)
ExecRowwise ==
    /\ plan # None
    /\ outcome = "none"
    /\ ep <= Len(plan[1])
    /\ plan[1][ep].kind = "Rowwise"
    /\ stats' = [stats EXCEPT !.segments_unfused = @ + 1, !.segments_executed = @ + 1]
    /\ ep' = ep + 1
    /\ UNCHANGED <<current_value, outcome, input, calls, stats0, planvars, not_exec>>

\* execute_segment on an Each or Real segment (execute_other_segment)
ExecOther ==
    /\ plan # None
    /\ outcome = "none"
    /\ ep <= Len(plan[1])
    /\ plan[1][ep].kind \in {"Each", "Real"}
    /\ stats' = [stats EXCEPT !.segments_unfused = @ + 1, !.segments_executed = @ + 1]
    /\ ep' = ep + 1
    /\ UNCHANGED <<current_value, outcome, input, calls, stats0, planvars, not_exec>>

\* execute_segment on a Scalar or Vector segment: Err
ExecScalarVector ==
    /\ plan # None
    /\ outcome = "none"
    /\ ep <= Len(plan[1])
    /\ plan[1][ep].kind \in {"Scalar", "Vector"}
    /\ outcome' = "err"
    /\ UNCHANGED <<current_value, ep, stats, input, calls, stats0, planvars, not_exec>>

\* Executor::execute after the loop: Ok(ExecutionResult { value, stats })
ExecReturn ==
    /\ plan # None
    /\ outcome = "none"
    /\ ep = Len(plan[1]) + 1
    /\ outcome' = "ok"
    /\ UNCHANGED <<current_value, ep, stats, input, calls, stats0, planvars, not_exec>>

-----------------------------------------------------------------------------
(* The sequential, unfused reference of tests/pipeline_equivalence.rs *)

\* execute_baseline_add / execute_baseline_mul, and the same NaN-preserving
\* form for subtraction and division
baseline_const(name, c, data) ==
    [i \in 1..Len(data) |->
        IF is_nan(data[i]) THEN NaN
        ELSE CASE name = "AddConst" -> f_add(data[i], Fin(c))
               [] name = "SubConst" -> f_sub(data[i], Fin(c))
               [] name = "MulConst" -> f_mul(data[i], Fin(c))
               [] name = "DivConst" -> f_div(data[i], Fin(c))]

\* one standalone op applied to a column: execute_baseline_dlog (dlog_column
\* with the lag of args[0]) or a constant op
baseline_op(op, data) ==
    IF op.name = "Dlog"
    THEN dlog_column(data, as_usize(op.args[1]))
    ELSE baseline_const(op.name, op.args[1], data)

RECURSIVE sequential_unfused(_, _, _)
\* the Op steps of steps[k..] applied one after another in IR order
sequential_unfused(steps, k, data) ==
    IF k > Len(steps) THEN data
    ELSE sequential_unfused(steps, k + 1,
            IF steps[k].step = "Op" THEN baseline_op(steps[k], data) ELSE data)

-----------------------------------------------------------------------------
(* Inputs and specifications *)

\* all sequences over S of length at most n
SeqsUpTo(S, n) == UNION {[1..k -> S] : k \in 0..n}

\* orientations used in planned IRs: each class, a class-preserving and a
\* class-changing D4 element, and both non-group modes
PlanOris == {ORI_H, ORI_N, ORI_Z, ORI__S, ORI_X, ORI_R}

PlanSteps ==
    {OriSet(o) : o \in PlanOris} \cup {OriRel(o) : o \in PlanOris}
    \cup {Op("Dlog", <<1>>), Op("Cs1", <<>>), Op("Sum", <<>>), Op("Mean", <<>>),
          Op("Generic", <<>>)}

PlanIRs == SeqsUpTo(PlanSteps, MaxSteps)

PlanTable ==
    Table_new(<<"x", "d">>,
              <<F64Column(<<Fin(1), Fin(2), NaN>>),
                DateColumn(<<Fin(10), Fin(11), Fin(12)>>)>>)

MaxChain == 2      \* longest chain of fusable ops in SpecFuse
MaxLen == 2        \* longest input column in SpecFuse

FuseSteps ==
    {Op("Dlog", <<lag>>) : lag \in 0..2}
    \cup {Op("AddConst", <<1>>), Op("SubConst", <<1>>), Op("MulConst", <<-2>>),
          Op("DivConst", <<2>>)}

FuseIRs == SeqsUpTo(FuseSteps, MaxChain)

FuseValues == {NaN, Fin(-1), Fin(0), Fin(1), Fin(4)}

FuseTables == {Table_new(<<"x">>, <<F64Column(d)>>) : d \in SeqsUpTo(FuseValues, MaxLen)}

\* no bitmap constructed yet
BitmapIdle ==
    /\ b_len = 0
    /\ b_a = [len |-> 0, bits |-> <<>>]
    /\ b_b = [len |-> 0, bits |-> <<>>]
    /\ b_out = [len |-> 0, bits |-> <<>>]
    /\ b_steps = 0
    /\ b_last = [op |-> "none", on |-> "none", i |-> 0, v |-> FALSE, lag |-> 0,
                 before |-> [len |-> 0, bits |-> <<>>]]

\* the request record of s_last before any request
NoRequest ==
    [op |-> "none", len |-> 0, idx |-> 0, fresh |-> FALSE, f64 |-> <<>>, bm |-> <<>>,
     f64_before |-> <<>>, bm_before |-> <<>>]

\* Scratch::new with nothing leased and nothing requested
ScratchNew ==
    /\ f64_bufs = <<>>
    /\ bitmap_bufs = <<>>
    /\ held_f64 = <<>>
    /\ held_bm = <<>>
    /\ s_prog = <<>>
    /\ s_pc = 1
    /\ s_iter = 0
    /\ s_fresh = 0
    /\ s_last = NoRequest

\* no compose call on a triple
GroupIdle ==
    /\ g_a = ORI_H
    /\ g_b = ORI_H
    /\ g_c = ORI_H
    /\ g_ab = None
    /\ g_bc = None
    /\ g_ab_c = None
    /\ g_a_bc = None
    /\ g_view = None
    /\ g_done = {}

\* no kernel call: empty buffers and empty bitmaps
KernIdle ==
    /\ k_n = 0
    /\ k_out0 = <<>>
    /\ k_valid0 = [len |-> 0, bits |-> <<>>]
    /\ k_x_valid = [len |-> 0, bits |-> <<>>]
    /\ k_y_valid = [len |-> 0, bits |-> <<>>]
    /\ k_lag = 0
    /\ k_out = <<>>
    /\ k_out_valid = [len |-> 0, bits |-> <<>>]
    /\ k_call = "none"

\* rolling_moments_past_only_f64 not called yet
RollIdle ==
    /\ r_x = <<>>
    /\ r_validity = <<>>
    /\ r_window = 1
    /\ r_minp = <<>>
    /\ r_mask = {}
    /\ r_out = <<>>
    /\ r_change = [p |-> 0, all |-> FALSE]
    /\ r_x2 = <<>>
    /\ r_validity2 = <<>>
    /\ r_out2 = <<>>

\* no orientation-aware operation called yet
OriIdle ==
    /\ o_view = [table |-> Table_new(<<>>, <<>>), ori |-> ORI_H]
    /\ o_call = "none"
    /\ o_result = <<>>

\* from_segment not called yet
SegIdle ==
    /\ fs_seg = Segment_new("Colwise", ORI_H)
    /\ fs_table = Table_new(<<>>, <<>>)
    /\ fs_called = FALSE
    /\ fs_kernel = <<>>
    /\ fs_result = <<>>

PlanIdle ==
    /\ ir = <<>>
    /\ PlannerNew
    /\ input = Table_new(<<>>, <<>>)
    /\ ExecutorNew

\* ---- SpecD4
InitD4 == D4Init /\ PlanIdle /\ KernIdle /\ GroupIdle /\ ScratchNew /\ BitmapIdle /\ RollIdle /\ OriIdle /\ SegIdle
NextD4 == D4Compose \/ D4MapSeq \/ D4MapDirect
SpecD4 == InitD4 /\ [][NextD4]_vars

\* ---- SpecPlan: plan a PipeIR, then execute the plan on a table
InitPlan ==
    /\ D4Idle
    /\ ir \in PlanIRs
    /\ PlannerNew
    /\ input = PlanTable
    /\ ExecutorNew
    /\ KernIdle
    /\ GroupIdle
    /\ ScratchNew /\ BitmapIdle /\ RollIdle /\ OriIdle /\ SegIdle
NextPlan ==
    \/ ProcessOriSet
    \/ ProcessOriRel
    \/ ProcessOp
    \/ FinishPlan
    \/ ExecColwise
    \/ ExecRowwise
    \/ ExecOther
    \/ ExecReturn
SpecPlan == InitPlan /\ [][NextPlan]_vars

\* ---- SpecFuse: plan and execute a chain of fusable ops on one F64 column
InitFuse ==
    /\ D4Idle
    /\ ir \in FuseIRs
    /\ PlannerNew
    /\ input \in FuseTables
    /\ ExecutorNew
    /\ KernIdle
    /\ GroupIdle
    /\ ScratchNew /\ BitmapIdle /\ RollIdle /\ OriIdle /\ SegIdle
NextFuse ==
    \/ ProcessOp
    \/ FinishPlan
    \/ ExecColwise
    \/ ExecReturn
SpecFuse == InitFuse /\ [][NextFuse]_vars

Spec == SpecPlan

-----------------------------------------------------------------------------
(* Helpers of the properties *)

HasReducer(seg) == \E j \in 1..Len(seg.ops) : seg.ops[j].name \in {"Sum", "Mean"}

RECURSIVE OpsBefore(_, _)
\* number of ops in the first k segments of segs
OpsBefore(segs, k) == IF k = 0 THEN 0 ELSE OpsBefore(segs, k - 1) + Len(segs[k].ops)

\* the ir index of the j-th op of the k-th segment, by the order of processing
IrIndexOf(segs, k, j) == op_trace[OpsBefore(segs, k - 1) + j].idx

\* the planner's orientation when the j-th op of the k-th segment was processed
OriAtOp(segs, k, j) == op_trace[OpsBefore(segs, k - 1) + j].ori

KindOfClass(c) ==
    CASE c = "ColwiseLike" -> "Colwise"
      [] c = "RowwiseLike" -> "Rowwise"
      [] c = "Each"        -> "Each"
      [] c = "Real"        -> "Real"

\* an orientation step that closes the open segment: any OriSet, and an OriRel
\* whose composition is undefined or changes the orientation class
FlushingStep(t) ==
    \/ ir[t].step = "OriSet"
    \/ /\ ir[t].step = "OriRel"
       /\ LET c == compose(ori_trace[t], ir[t].ori)
          IN  c = None \/ class(c[1]) # class(ori_trace[t])

-----------------------------------------------------------------------------
(* Claims *)

\* C1 (as stated): once Executor::execute has returned Ok for the plan of a
\* chain of fusable ops, the output column equals, position by position and
\* NaN for NaN, the standalone ops applied one after another in IR order.
C1_FusionEquivalence ==
    outcome = "ok" =>
        current_value.columns[1].data
            = sequential_unfused(ir, 1, input.columns[1].data)

\* C5: every segment of the plan returned by Planner::plan holds at least one op.
C5_NoEmptySegment ==
    plan # None => \A k \in 1..Len(plan[1]) : Len(plan[1][k].ops) >= 1

\* C5 witness: a plan with a segment, from an IR that starts with two
\* consecutive orientation steps.
C5_Witness ==
    /\ plan # None
    /\ Len(plan[1]) >= 1
    /\ Len(ir) >= 3
    /\ ir[1].step # "Op"
    /\ ir[2].step # "Op"

\* C6: every plan segment that contains a reducer (Sum or Mean) contains
\* exactly that one op.
C6_ReducerAlone ==
    plan # None =>
        \A k \in 1..Len(plan[1]) : HasReducer(plan[1][k]) => Len(plan[1][k].ops) = 1

\* C6 witness: a reducer planned between two other ops, in three segments.
C6_Witness ==
    /\ plan # None
    /\ Len(ir) = 3
    /\ \A t \in 1..3 : ir[t].step = "Op"
    /\ ir[2].name = "Mean"
    /\ ir[1].name = "Dlog"
    /\ ir[3].name = "Cs1"
    /\ Len(plan[1]) = 3

\* C7 (as stated): two consecutive segments of the plan have the same kind
\* only if at least one of them is a reducer segment.
C7_MaximalRuns ==
    plan # None =>
        \A k \in 1..(Len(plan[1]) - 1) :
            plan[1][k].kind = plan[1][k + 1].kind =>
                HasReducer(plan[1][k]) \/ HasReducer(plan[1][k + 1])

\* C7 (amended): two consecutive segments of the plan have the same kind only
\* if at least one of them is a reducer segment or a flushing orientation step
\* (an OriSet, or an OriRel whose composition is undefined or changes the
\* class) lies between their ops in the IR.
C7_RunsSplitOnlyByFlush ==
    plan # None =>
        \A k \in 1..(Len(plan[1]) - 1) :
            plan[1][k].kind = plan[1][k + 1].kind =>
                \/ HasReducer(plan[1][k])
                \/ HasReducer(plan[1][k + 1])
                \/ \E t \in (IrIndexOf(plan[1], k, Len(plan[1][k].ops)) + 1)
                            .. (IrIndexOf(plan[1], k + 1, 1) - 1) : FlushingStep(t)

\* C7 witness: two adjacent non-reducer segments of one kind, and a
\* class-preserving OriRel that did not split the ops around it.
C7_Witness ==
    /\ plan # None
    /\ Len(plan[1]) = 2
    /\ plan[1][1].kind = plan[1][2].kind
    /\ ~HasReducer(plan[1][1])
    /\ ~HasReducer(plan[1][2])

\* C7 witness of the unsplit case: ops on both sides of a class-preserving
\* OriRel planned into one segment.
C7_WitnessJoined ==
    /\ plan # None
    /\ Len(ir) = 3
    /\ ir[2] = OriRel(ORI_N)
    /\ Len(plan[1]) = 1
    /\ Len(plan[1][1].ops) = 2

\* C8: for every op of every plan segment, the class of the planner's
\* orientation when the op was processed maps to the segment's kind, and the
\* segment's kind is the kind of start_ori's class.
C8_OneClassPerSegment ==
    plan # None =>
        \A k \in 1..Len(plan[1]) :
            /\ plan[1][k].kind = KindOfClass(class(plan[1][k].start_ori))
            /\ \A j \in 1..Len(plan[1][k].ops) :
                   KindOfClass(class(OriAtOp(plan[1], k, j))) = plan[1][k].kind

\* C8 witness: a segment joined across a class-preserving OriRel, so that its
\* second op was processed under an orientation other than start_ori.
C8_Witness ==
    /\ plan # None
    /\ Len(plan[1]) >= 1
    /\ Len(plan[1][1].ops) = 2
    /\ OriAtOp(plan[1], 1, 2) # plan[1][1].start_ori

\* C9 (as stated): on a square grid, compose(a, b).map_ij(i, j) equals
\* b.map_ij applied to a.map_ij(i, j).
C9_TableAgreesWithMapping ==
    (d4_seq # None /\ d4_direct # None) => d4_direct = d4_seq

\* C10: H is a two-sided identity of compose, compose(Z, Z) = H, compose of
\* two D4 orientations is a D4 orientation, and the first argument has a
\* two-sided inverse.
C10_IdentityAndInverses ==
    ("compose" \in d4_done /\ d4_a.tag = "D4" /\ d4_b.tag = "D4") =>
        /\ d4_c # None
        /\ d4_c[1] \in D4Oris
        /\ d4_a = ORI_H => d4_c[1] = d4_b
        /\ d4_b = ORI_H => d4_c[1] = d4_a
        /\ (d4_a = ORI_Z /\ d4_b = ORI_Z) => d4_c[1] = ORI_H
        /\ \E inv \in D4Oris :
               /\ compose(d4_a, inv) = Some(ORI_H)
               /\ compose(inv, d4_a) = Some(ORI_H)

\* C10 witness: compose has run on a pair of D4 orientations whose result is
\* H although neither argument is H and the two differ (an inverse pair).
C10_Witness ==
    /\ "compose" \in d4_done
    /\ d4_a.tag = "D4"
    /\ d4_b.tag = "D4"
    /\ d4_a # ORI_H
    /\ d4_a # d4_b
    /\ d4_c = Some(ORI_H)

-----------------------------------------------------------------------------
(* table/bitmap.rs.  A Bitmap is [len, bits]; bits is the Vec<u64>, each     *)
(* word given as the set of its set bit positions 0..63 (LSB = bit 0).       *)

WordBits == 64

FULL  == 0..(WordBits - 1)      \* !0u64
EMPTY == {}                     \* 0u64

\* A constructor that leaves the last word unmasked.
new_all_valid_unmasked(len) ==
    [len |-> len, bits |-> [w \in 1..((len + 63) \div WordBits) |-> FULL]]

\* Bitmap::new_all_valid
new_all_valid(len) ==
    LET words == (len + 63) \div WordBits
        rem   == len % WordBits
    IN  [len  |-> len,
         bits |-> [w \in 1..words |->
                      IF w = words /\ rem # 0 THEN 0..(rem - 1) ELSE FULL]]

\* Bitmap::new_all_null
new_all_null(len) ==
    [len |-> len, bits |-> [w \in 1..((len + 63) \div WordBits) |-> EMPTY]]

\* Bitmap::get (i is 0-based)
bm_get(bm, i) == (i % WordBits) \in bm.bits[(i \div WordBits) + 1]

\* A set that sets the bit whatever v is.
bm_set_always(bm, i, v) ==
    [bm EXCEPT !.bits[(i \div WordBits) + 1] = @ \cup {i % WordBits}]

\* Bitmap::set
bm_set(bm, i, v) ==
    [bm EXCEPT !.bits[(i \div WordBits) + 1] =
        IF v THEN @ \cup {i % WordBits} ELSE @ \ {i % WordBits}]

\* Bitmap::word (w is 0-based)
bm_word(bm, w) == bm.bits[w + 1]

\* Bitmap::words_len
words_len(bm) == Len(bm.bits)

\* bits_mut()[w] = word
set_word(bm, w, word) == [bm EXCEPT !.bits[w + 1] = word]

\* A loop that sets the bits of T and leaves every other bit as it was.
set_each_true_only(bm, lo, hi, T) ==
    [bm EXCEPT !.bits =
        [w \in 1..Len(bm.bits) |->
            {b \in FULL :
                LET i == (w - 1) * WordBits + b
                IN  (lo <= i /\ i < hi /\ i \in T) \/ b \in bm.bits[w]}]]

\* for i in lo..hi { bm.set(i, i \in T) }: T holds the positions set to true
set_each(bm, lo, hi, T) ==
    [bm EXCEPT !.bits =
        [w \in 1..Len(bm.bits) |->
            {b \in FULL :
                LET i == (w - 1) * WordBits + b
                IN  IF lo <= i /\ i < hi THEN i \in T ELSE b \in bm.bits[w]}]]

\* for w in 0..words_len() { bits_mut()[w] = 0 }
clear_words(bm) == [bm EXCEPT !.bits = [w \in 1..Len(bm.bits) |-> EMPTY]]

-----------------------------------------------------------------------------
(* builtins/kernels_masked.rs, kernels_fused.rs, kernels_wordwise.rs.        *)
(* A kernel takes the buffers out (1-based here) and out_valid as handed in  *)
(* and yields them as left by the call: [out, out_valid].                    *)

Min(a, b) == IF a < b THEN a ELSE b
Max(a, b) == IF a > b THEN a ELSE b

\* x[i].ln() - x[i - lag].ln(), i 0-based
dlog_at(x, lag, i) == f_sub(f_ln(x[i + 1]), f_ln(x[i + 1 - lag]))

\* a * (curr_ln - prev_ln) + b
dlog_scale_add_at(x, lag, a, b, i) == f_add(f_mul(a, dlog_at(x, lag, i)), b)

\* the value a lagged kernel writes at i: the plain log difference
\* (k.scale = FALSE) or a * dlog + b with k.a, k.b
lag_value_at(k, x, lag, i) ==
    IF k.scale THEN dlog_scale_add_at(x, lag, k.a, k.b, i) ELSE dlog_at(x, lag, i)

\* A lagged loop that tests the validity of the current element only.
lag_loop_curr_only(out, out_valid, k, x, x_valid, lag, lo, hi) ==
    LET ok == {i \in lo..(hi - 1) : bm_get(x_valid, i)}
    IN  [out       |-> [p \in 1..Len(out) |->
                          IF (p - 1) \in ok THEN lag_value_at(k, x, lag, p - 1) ELSE out[p]],
         out_valid |-> set_each(out_valid, lo, hi, ok)]

\* the per-element loop shared by the lagged kernels, for i in lo..hi:
\* if both x_valid bits are set, write the value and set the bit, else clear it
lag_loop(out, out_valid, k, x, x_valid, lag, lo, hi) ==
    LET ok == {i \in lo..(hi - 1) : bm_get(x_valid, i) /\ bm_get(x_valid, i - lag)}
    IN  [out       |-> [p \in 1..Len(out) |->
                          IF (p - 1) \in ok THEN lag_value_at(k, x, lag, p - 1) ELSE out[p]],
         out_valid |-> set_each(out_valid, lo, hi, ok)]

\* the modes of the lagged kernels
PlainDlog == [scale |-> FALSE, a |-> NaN, b |-> NaN]
ScaleAdd(a, b) == [scale |-> TRUE, a |-> a, b |-> b]

\* dlog_masked
dlog_masked(out, out_valid, x, x_valid, lag) ==
    LET n == Len(x)
    IN  IF lag = 0 \/ lag >= n
        THEN [out |-> [p \in 1..Len(out) |-> NaN], out_valid |-> clear_words(out_valid)]
        ELSE lag_loop(out, set_each(out_valid, 0, lag, {}), PlainDlog, x, x_valid, lag, lag, n)

\* dlog_scale_add_masked
dlog_scale_add_masked(out, out_valid, x, x_valid, lag, a, b) ==
    LET n == Len(x)
    IN  IF lag = 0 \/ lag >= n
        THEN [out |-> out, out_valid |-> clear_words(out_valid)]
        ELSE lag_loop(out, set_each(out_valid, 0, lag, {}), ScaleAdd(a, b), x, x_valid, lag, lag, n)

\* the per-element loop of the unlagged unary kernels; vals[i + 1] is the
\* value computed from x[i]
unary_loop(out, out_valid, x_valid, vals) ==
    LET ok == {i \in 0..(Len(out) - 1) : bm_get(x_valid, i)}
    IN  [out       |-> [p \in 1..Len(out) |-> IF (p - 1) \in ok THEN vals[p] ELSE out[p]],
         out_valid |-> set_each(out_valid, 0, Len(out), ok)]

\* unary_masked; fx[i + 1] is f(x[i]) for the closure f of the call
unary_masked(out, out_valid, x, x_valid, fx) ==
    unary_loop(out, out_valid, x_valid, fx)

\* ln_scale_add_masked
ln_scale_add_masked(out, out_valid, x, x_valid, a, b) ==
    unary_loop(out, out_valid, x_valid,
               [p \in 1..Len(x) |-> f_add(f_mul(a, f_ln(x[p])), b)])

\* A binary validity that is set when either input is valid.
binary_valid_either(va, vb) == va \/ vb

\* the test `va && vb` of binary_masked and `vx && vy` of sub_mul_add_masked
binary_valid(va, vb) == va /\ vb

\* the per-element loop of the binary kernels; vals[i + 1] is the value
\* computed from a[i] and b[i]
binary_loop(out, out_valid, a_valid, b_valid, vals) ==
    LET ok == {i \in 0..(Len(out) - 1) :
                  binary_valid(bm_get(a_valid, i), bm_get(b_valid, i))}
    IN  [out       |-> [p \in 1..Len(out) |-> IF (p - 1) \in ok THEN vals[p] ELSE out[p]],
         out_valid |-> set_each(out_valid, 0, Len(out), ok)]

\* binary_masked; fab[i + 1] is f(a[i], b[i]) for the closure f of the call
binary_masked(out, out_valid, a, a_valid, b, b_valid, fab) ==
    binary_loop(out, out_valid, a_valid, b_valid, fab)

\* sub_mul_add_masked
sub_mul_add_masked(out, out_valid, x, x_valid, y, y_valid, a, b) ==
    binary_loop(out, out_valid, x_valid, y_valid,
                [p \in 1..Len(x) |-> f_add(f_mul(f_sub(x[p], y[p]), a), b)])

\* An all-valid test that looks at the current word only.
wordwise_all_valid_curr_only(x_valid, word_idx, lag_word_idx, lag_offset) ==
    bm_word(x_valid, word_idx) = FULL

\* the all_valid test of the word-wise kernels: aligned lag and both words !0
wordwise_all_valid(x_valid, word_idx, lag_word_idx, lag_offset) ==
    IF lag_offset = 0
    THEN bm_word(x_valid, word_idx) = FULL /\ bm_word(x_valid, lag_word_idx) = FULL
    ELSE FALSE

\* one iteration of the word loop of the word-wise kernels
wordwise_word(st, k, x, x_valid, lag, word_idx) ==
    LET n         == Len(x)
        start_idx == word_idx * WordBits
        end_idx   == Min(start_idx + WordBits, n)
    IN  IF start_idx < lag
        THEN lag_loop(st.out, st.out_valid, k, x, x_valid, lag, Max(start_idx, lag), end_idx)
        ELSE LET curr_word    == bm_word(x_valid, word_idx)
                 lag_word_idx == (start_idx - lag) \div WordBits
                 lag_offset   == (start_idx - lag) % WordBits
             IN  IF wordwise_all_valid(x_valid, word_idx, lag_word_idx, lag_offset)
                 THEN [out       |-> [p \in 1..Len(st.out) |->
                                        IF start_idx <= p - 1 /\ p - 1 < end_idx
                                        THEN lag_value_at(k, x, lag, p - 1) ELSE st.out[p]],
                       out_valid |-> set_word(st.out_valid, word_idx, FULL)]
                 ELSE IF curr_word = EMPTY
                 THEN [out |-> st.out, out_valid |-> set_word(st.out_valid, word_idx, EMPTY)]
                 ELSE lag_loop(st.out, st.out_valid, k, x, x_valid, lag, start_idx, end_idx)

RECURSIVE wordwise_words(_, _, _, _, _, _)
\* for word_idx in from..num_words
wordwise_words(st, k, x, x_valid, lag, from) ==
    IF from >= words_len(x_valid)
    THEN st
    ELSE wordwise_words(wordwise_word(st, k, x, x_valid, lag, from),
                        k, x, x_valid, lag, from + 1)

\* the body shared by dlog_wordwise and dlog_scale_add_wordwise
wordwise_kernel(out, out_valid, k, x, x_valid, lag) ==
    LET n == Len(x)
    IN  IF lag = 0 \/ lag >= n
        THEN [out |-> out, out_valid |-> clear_words(out_valid)]
        ELSE wordwise_words(
                 [out |-> out,
                  out_valid |-> set_each(out_valid, 0, lag, {})],
                 k, x, x_valid, lag, 0)

\* dlog_wordwise
dlog_wordwise(out, out_valid, x, x_valid, lag) ==
    wordwise_kernel(out, out_valid, PlainDlog, x, x_valid, lag)

\* dlog_scale_add_wordwise
dlog_scale_add_wordwise(out, out_valid, x, x_valid, lag, a, b) ==
    wordwise_kernel(out, out_valid, ScaleAdd(a, b), x, x_valid, lag)

-----------------------------------------------------------------------------
(* SpecKernel: one call of a masked or word-wise kernel on buffers of length *)
(* k_n.  The data are fixed positive columns; validity, lag and the state of *)
(* the out_valid bitmap handed in vary.                                      *)

MaxFullWords == 2   \* the longest column has MaxFullWords full words and one partial

KLens == {1, 3} \cup {WordBits * w : w \in 1..MaxFullWords}
               \cup {WordBits * w + 2 : w \in 1..MaxFullWords}

\* the contents of one validity word: all valid, all null, and two mixed
WordPatterns == {FULL, EMPTY, FULL \ {1}, {1}}

\* a bitmap of length n with the given words, bits at positions >= n cleared
MaskedTo(n, words) ==
    [len  |-> n,
     bits |-> [w \in 1..Len(words) |->
                  {b \in words[w] : (w - 1) * WordBits + b < n}]]

\* input validities: every word drawn from WordPatterns
Validities(n) ==
    {MaskedTo(n, ws) : ws \in [1..((n + 63) \div WordBits) -> WordPatterns]}

\* validities of the second input: one pattern repeated in every word
YValidities(n) ==
    {MaskedTo(n, [w \in 1..((n + 63) \div WordBits) |-> pat]) : pat \in WordPatterns}

\* lags: none, small, around the word size, two words, and the column length
KLags(n) == {0, 1, 2, WordBits - 1, WordBits, WordBits + 1, 2 * WordBits, n}

KX(n) == [p \in 1..n |-> Fin(p)]
KY(n) == [p \in 1..n |-> Fin(2 * p + 1)]
KA == Fin(2)
KB == Fin(1)

\* the closures of the tests: |x| x * 2.0 and |x, y| x + y
KUnaryF(x) == f_mul(x, Fin(2))
KBinaryF(x, y) == f_add(x, y)
KUnaryVals(n) == [p \in 1..n |-> KUnaryF(KX(n)[p])]
KBinaryVals(n) == [p \in 1..n |-> KBinaryF(KX(n)[p], KY(n)[p])]

KernInit ==
    /\ k_n \in KLens
    /\ k_out0 = [p \in 1..k_n |-> Fin(0)]                  \* vec![0.0; n]
    /\ k_valid0 \in {new_all_null(k_n), new_all_valid(k_n)}
    /\ k_x_valid = new_all_valid(k_n)
    /\ k_y_valid = new_all_valid(k_n)
    /\ k_lag = 0
    /\ k_out = k_out0
    /\ k_out_valid = k_valid0
    /\ k_call = "none"

\* the state left by a call that returned r
Called(name, r, xv, yv, lag) ==
    /\ k_call' = name
    /\ k_out' = r.out
    /\ k_out_valid' = r.out_valid
    /\ k_x_valid' = xv
    /\ k_y_valid' = yv
    /\ k_lag' = lag
    /\ UNCHANGED <<k_n, k_out0, k_valid0, not_kern>>

CallDlogMasked ==
    /\ k_call = "none"
    /\ \E xv \in Validities(k_n), lag \in KLags(k_n) :
          Called("dlog_masked", dlog_masked(k_out, k_out_valid, KX(k_n), xv, lag),
                 xv, k_y_valid, lag)

CallDlogScaleAddMasked ==
    /\ k_call = "none"
    /\ \E xv \in Validities(k_n), lag \in KLags(k_n) :
          Called("dlog_scale_add_masked",
                 dlog_scale_add_masked(k_out, k_out_valid, KX(k_n), xv, lag, KA, KB),
                 xv, k_y_valid, lag)

CallDlogWordwise ==
    /\ k_call = "none"
    /\ \E xv \in Validities(k_n), lag \in KLags(k_n) :
          Called("dlog_wordwise", dlog_wordwise(k_out, k_out_valid, KX(k_n), xv, lag),
                 xv, k_y_valid, lag)

CallDlogScaleAddWordwise ==
    /\ k_call = "none"
    /\ \E xv \in Validities(k_n), lag \in KLags(k_n) :
          Called("dlog_scale_add_wordwise",
                 dlog_scale_add_wordwise(k_out, k_out_valid, KX(k_n), xv, lag, KA, KB),
                 xv, k_y_valid, lag)

CallUnaryMasked ==
    /\ k_call = "none"
    /\ \E xv \in Validities(k_n) :
          Called("unary_masked", unary_masked(k_out, k_out_valid, KX(k_n), xv, KUnaryVals(k_n)),
                 xv, k_y_valid, k_lag)

CallLnScaleAddMasked ==
    /\ k_call = "none"
    /\ \E xv \in Validities(k_n) :
          Called("ln_scale_add_masked",
                 ln_scale_add_masked(k_out, k_out_valid, KX(k_n), xv, KA, KB),
                 xv, k_y_valid, k_lag)

CallBinaryMasked ==
    /\ k_call = "none"
    /\ \E xv \in Validities(k_n), yv \in YValidities(k_n) :
          Called("binary_masked",
                 binary_masked(k_out, k_out_valid, KX(k_n), xv, KY(k_n), yv, KBinaryVals(k_n)),
                 xv, yv, k_lag)

CallSubMulAddMasked ==
    /\ k_call = "none"
    /\ \E xv \in Validities(k_n), yv \in YValidities(k_n) :
          Called("sub_mul_add_masked",
                 sub_mul_add_masked(k_out, k_out_valid, KX(k_n), xv, KY(k_n), yv, KA, KB),
                 xv, yv, k_lag)

InitKernel == D4Idle /\ PlanIdle /\ KernInit /\ GroupIdle /\ ScratchNew /\ BitmapIdle /\ RollIdle /\ OriIdle /\ SegIdle
NextKernel ==
    \/ CallDlogMasked
    \/ CallDlogScaleAddMasked
    \/ CallDlogWordwise
    \/ CallDlogScaleAddWordwise
    \/ CallUnaryMasked
    \/ CallLnScaleAddMasked
    \/ CallBinaryMasked
    \/ CallSubMulAddMasked
SpecKernel == InitKernel /\ [][NextKernel]_vars

\* the positions of the column, 0-based
KIdx == 0..(k_n - 1)

\* C2: after binary_masked and sub_mul_add_masked, out_valid.get(i) equals
\* a_valid.get(i) AND b_valid.get(i) at every i < n.
C2_ValidityConjunction ==
    k_call \in {"binary_masked", "sub_mul_add_masked"} =>
        \A i \in KIdx : bm_get(k_out_valid, i) = (bm_get(k_x_valid, i) /\ bm_get(k_y_valid, i))

\* C2 witness: a binary kernel has run on inputs with a position valid in the
\* first input only and a position valid in the second only, over a bitmap
\* that was handed in all valid.
C2_Witness ==
    /\ k_call = "binary_masked"
    /\ k_valid0 = new_all_valid(k_n)
    /\ \E i \in KIdx : bm_get(k_x_valid, i) /\ ~bm_get(k_y_valid, i)
    /\ \E i \in KIdx : ~bm_get(k_x_valid, i) /\ bm_get(k_y_valid, i)
    /\ \E i \in KIdx : bm_get(k_x_valid, i) /\ bm_get(k_y_valid, i)

\* C3: dlog_wordwise leaves the same out_valid bit as dlog_masked at every
\* i < n and the same value wherever that bit is set; likewise
\* dlog_scale_add_wordwise and dlog_scale_add_masked.
C3_WordwiseMatchesMasked ==
    /\ k_call = "dlog_wordwise" =>
          \A m \in {dlog_masked(k_out0, k_valid0, KX(k_n), k_x_valid, k_lag)} :
              \A i \in KIdx :
                 /\ bm_get(k_out_valid, i) = bm_get(m.out_valid, i)
                 /\ bm_get(k_out_valid, i) => k_out[i + 1] = m.out[i + 1]
    /\ k_call = "dlog_scale_add_wordwise" =>
          \A m \in {dlog_scale_add_masked(k_out0, k_valid0, KX(k_n), k_x_valid, k_lag, KA, KB)} :
              \A i \in KIdx :
                 /\ bm_get(k_out_valid, i) = bm_get(m.out_valid, i)
                 /\ bm_get(k_out_valid, i) => k_out[i + 1] = m.out[i + 1]

\* C3 witness: dlog_wordwise has run with a lag of one word on a column of two
\* full words and a partial one, the second word all valid and its lagged
\* word not: the aligned case in which only the lagged word decides.
C3_Witness ==
    /\ k_call = "dlog_wordwise"
    /\ k_lag = WordBits
    /\ k_n = 2 * WordBits + 2
    /\ k_x_valid.bits[2] = FULL
    /\ k_x_valid.bits[1] = FULL \ {1}
    /\ k_x_valid.bits[3] = {1}
    /\ bm_get(k_out_valid, WordBits) /\ ~bm_get(k_out_valid, WordBits + 1)

\* C4 (as stated): every masked and word-wise kernel leaves out[i] as it was
\* before the call at every position whose output validity bit ends up false.
C4_NoWriteAtInvalid ==
    k_call # "none" =>
        \A i \in KIdx : ~bm_get(k_out_valid, i) => k_out[i + 1] = k_out0[i + 1]


-----------------------------------------------------------------------------
(* SpecGroup: compose on triples of orientations, bracketed both ways as in  *)
(* test_composition_associative, and TableView::compose_orientation.         *)

\* TableView::with_ori
with_ori(table, ori) == [table |-> table, ori |-> ori]

\* TableView::compose_orientation: compose(self.ori, other)?, same table
compose_orientation(view, other) ==
    LET new_ori == compose(view.ori, other)
    IN  IF new_ori = None
        THEN None
        ELSE Some([table |-> view.table, ori |-> new_ori[1]])

GroupInit ==
    /\ g_a \in AllOris
    /\ g_b \in AllOris
    /\ g_c \in AllOris
    /\ g_ab = None
    /\ g_bc = None
    /\ g_ab_c = None
    /\ g_a_bc = None
    /\ g_view = None
    /\ g_done = {}

\* let ab = compose(a, b)
ComposeAB ==
    /\ "ab" \notin g_done
    /\ g_ab' = compose(g_a, g_b)
    /\ g_done' = g_done \cup {"ab"}
    /\ UNCHANGED <<g_a, g_b, g_c, g_bc, g_ab_c, g_a_bc, g_view, not_grp>>

\* let bc = compose(b, c)
ComposeBC ==
    /\ "bc" \notin g_done
    /\ g_bc' = compose(g_b, g_c)
    /\ g_done' = g_done \cup {"bc"}
    /\ UNCHANGED <<g_a, g_b, g_c, g_ab, g_ab_c, g_a_bc, g_view, not_grp>>

\* let ab_c = compose(ab.unwrap(), c)
ComposeAB_C ==
    /\ "ab" \in g_done
    /\ "ab_c" \notin g_done
    /\ g_ab # None
    /\ g_ab_c' = compose(g_ab[1], g_c)
    /\ g_done' = g_done \cup {"ab_c"}
    /\ UNCHANGED <<g_a, g_b, g_c, g_ab, g_bc, g_a_bc, g_view, not_grp>>

\* let a_bc = compose(a, bc.unwrap())
ComposeA_BC ==
    /\ "bc" \in g_done
    /\ "a_bc" \notin g_done
    /\ g_bc # None
    /\ g_a_bc' = compose(g_a, g_bc[1])
    /\ g_done' = g_done \cup {"a_bc"}
    /\ UNCHANGED <<g_a, g_b, g_c, g_ab, g_bc, g_ab_c, g_view, not_grp>>

\* TableView::with_ori(table, a).compose_orientation(b)
ViewCompose ==
    /\ "view" \notin g_done
    /\ g_view' = compose_orientation(with_ori("table", g_a), g_b)
    /\ g_done' = g_done \cup {"view"}
    /\ UNCHANGED <<g_a, g_b, g_c, g_ab, g_bc, g_ab_c, g_a_bc, not_grp>>

InitGroup == D4Idle /\ PlanIdle /\ KernIdle /\ GroupInit /\ ScratchNew /\ BitmapIdle /\ RollIdle /\ OriIdle /\ SegIdle
NextGroup == ComposeAB \/ ComposeBC \/ ComposeAB_C \/ ComposeA_BC \/ ViewCompose
SpecGroup == InitGroup /\ [][NextGroup]_vars

\* C11: for every triple of D4 orientations,
\* compose(compose(a, b), c) = compose(a, compose(b, c)).
C11_Associative ==
    ({"ab_c", "a_bc"} \subseteq g_done) => g_ab_c = g_a_bc

\* C11 witness: both bracketings have been computed for a triple of
\* non-identity orientations whose first two do not commute.
C11_Witness ==
    /\ {"ab_c", "a_bc"} \subseteq g_done
    /\ g_a # ORI_H /\ g_b # ORI_H /\ g_c # ORI_H
    /\ compose(g_a, g_b) # compose(g_b, g_a)
    /\ g_ab_c # None
    /\ g_ab_c = g_a_bc

\* C12: compose(a, b) is None exactly when a or b is Each or Real, and
\* TableView::compose_orientation is None in the same cases.
C12_UndefinedOutsideGroup ==
    /\ "ab" \in g_done =>
          (g_ab = None <=> (g_a \in {Each, Real} \/ g_b \in {Each, Real}))
    /\ "view" \in g_done =>
          (g_view = None <=> (g_a \in {Each, Real} \/ g_b \in {Each, Real}))

\* C12 witness: compose and compose_orientation have both returned None for
\* a D4 orientation composed with Real.
C12_Witness ==
    /\ {"ab", "view"} \subseteq g_done
    /\ g_a.tag = "D4"
    /\ g_b = Real
    /\ g_ab = None
    /\ g_view = None


-----------------------------------------------------------------------------
(* builtins/scratch.rs.  A Vec<f64> is [len, cap, zero]: its length, its     *)
(* capacity and whether all its elements are 0.0.  The pools are sequences   *)
(* whose last element is the one Vec::pop takes.                             *)

MaxOps  == 4     \* requests (get_* and return_*) in one iteration
MaxIter == 2     \* iterations after the warm-up iteration

\* the sizes requested: a small and a large one
ScratchLens == {1, 2}

\* vec![0.0; len]
vec_zeros(len) == [len |-> len, cap |-> len, zero |-> TRUE]

\* Vec::with_capacity(len): an empty vector with room for len elements
vec_with_capacity(len) == [len |-> 0, cap |-> len, zero |-> TRUE]

Front(q) == SubSeq(q, 1, Len(q) - 1)
Last(q)  == q[Len(q)]

\* A capacity test that rejects a buffer of exactly the requested size.
has_capacity_strict(buf, len) == buf.cap > len

\* buf.capacity() >= len
has_capacity(buf, len) == buf.cap >= len

\* Scratch::get_f64: [pool, buf, fresh] = the pool left, the buffer returned
\* and whether it was newly allocated
get_f64(pool, len) ==
    IF pool # <<>> /\ has_capacity(Last(pool), len)
    THEN [pool  |-> Front(pool),
          buf   |-> [len |-> len, cap |-> Last(pool).cap, zero |-> TRUE],
          fresh |-> FALSE]
    ELSE [pool  |-> IF pool # <<>> THEN Front(pool) ELSE pool,
          buf   |-> vec_zeros(len),
          fresh |-> TRUE]

\* Scratch::get_f64_uninit; z is what the elements exposed by set_len happen
\* to hold (TRUE: all 0.0)
get_f64_uninit(pool, len, z) ==
    IF pool # <<>> /\ has_capacity(Last(pool), len)
    THEN [pool  |-> Front(pool),
          buf   |-> [len |-> len, cap |-> Last(pool).cap, zero |-> z],
          fresh |-> FALSE]
    ELSE [pool  |-> IF pool # <<>> THEN Front(pool) ELSE pool,
          buf   |-> vec_with_capacity(len),
          fresh |-> TRUE]

\* A length test that accepts any bitmap at least as long as requested.
bitmap_fits_longer(bm, len) == bm.len >= len

\* bm.len() == len
bitmap_fits(bm, len) == bm.len = len

\* Scratch::get_bitmap
get_bitmap(pool, len) ==
    IF pool # <<>> /\ bitmap_fits(Last(pool), len)
    THEN [pool |-> Front(pool), bm |-> Last(pool), fresh |-> FALSE]
    ELSE [pool  |-> IF pool # <<>> THEN Front(pool) ELSE pool,
          bm    |-> new_all_null(len),
          fresh |-> TRUE]

\* Scratch::return_f64
return_f64(pool, buf) == Append(pool, buf)

\* Scratch::return_bitmap
return_bitmap(pool, bm) == Append(pool, bm)

\* Scratch::stats
stats_of(f, b) == [f64_bufs |-> Len(f), bitmap_bufs |-> Len(b)]

\* q without its k-th element
RemoveAt(q, k) == SubSeq(q, 1, k - 1) \o SubSeq(q, k + 1, Len(q))

\* a request of the iteration
Request(op, len, idx) == [op |-> op, len |-> len, idx |-> idx]

\* The warm-up iteration may make any request that leaves room to return
\* everything leased; a later iteration repeats the warm-up's requests.
MayRequest(req, leases) ==
    IF s_iter = 0
    THEN Len(s_prog) + 1 + Len(held_f64) + Len(held_bm) + leases <= MaxOps
    ELSE s_pc <= Len(s_prog) /\ s_prog[s_pc] = req

\* the bookkeeping of a request
Requested(req) ==
    /\ s_prog' = IF s_iter = 0 THEN Append(s_prog, req) ELSE s_prog
    /\ s_pc' = IF s_iter = 0 THEN s_pc ELSE s_pc + 1
    /\ UNCHANGED <<s_iter, not_scr>>

Counted(fresh) == s_fresh' = s_fresh + (IF fresh THEN 1 ELSE 0)

LastOf(req, fresh, f, b) ==
    [op |-> req.op, len |-> req.len, idx |-> req.idx, fresh |-> fresh, f64 |-> f, bm |-> b,
     f64_before |-> f64_bufs, bm_before |-> bitmap_bufs]

\* let buf = scratch.get_f64(len)
GetF64 ==
    \E len \in ScratchLens :
        LET req == Request("get_f64", len, 0)
            r   == get_f64(f64_bufs, len)
        IN  /\ MayRequest(req, 1)
            /\ f64_bufs' = r.pool
            /\ held_f64' = Append(held_f64, r.buf)
            /\ Counted(r.fresh)
            /\ s_last' = LastOf(req, r.fresh, <<r.buf>>, <<>>)
            /\ Requested(req)
            /\ UNCHANGED <<bitmap_bufs, held_bm>>

\* let buf = scratch.get_f64_uninit(len)
GetF64Uninit ==
    \E len \in ScratchLens, z \in BOOLEAN :
        LET req == Request("get_f64_uninit", len, 0)
            r   == get_f64_uninit(f64_bufs, len, z)
        IN  /\ MayRequest(req, 1)
            /\ f64_bufs' = r.pool
            /\ held_f64' = Append(held_f64, r.buf)
            /\ Counted(r.fresh)
            /\ s_last' = LastOf(req, r.fresh, <<r.buf>>, <<>>)
            /\ Requested(req)
            /\ UNCHANGED <<bitmap_bufs, held_bm>>

\* let bm = scratch.get_bitmap(len)
GetBitmap ==
    \E len \in ScratchLens :
        LET req == Request("get_bitmap", len, 0)
            r   == get_bitmap(bitmap_bufs, len)
        IN  /\ MayRequest(req, 1)
            /\ bitmap_bufs' = r.pool
            /\ held_bm' = Append(held_bm, r.bm)
            /\ Counted(r.fresh)
            /\ s_last' = LastOf(req, r.fresh, <<>>, <<r.bm>>)
            /\ Requested(req)
            /\ UNCHANGED <<f64_bufs, held_f64>>

\* scratch.return_f64(buf) for the idx-th buffer held, after the caller has
\* written it (zero = FALSE) or left it as it was
ReturnF64 ==
    \E idx \in 1..Len(held_f64), written \in BOOLEAN :
        LET req == Request("return_f64", 0, idx)
            buf == IF written /\ held_f64[idx].len > 0
                   THEN [held_f64[idx] EXCEPT !.zero = FALSE]
                   ELSE held_f64[idx]
        IN  /\ MayRequest(req, -1)
            /\ f64_bufs' = return_f64(f64_bufs, buf)
            /\ held_f64' = RemoveAt(held_f64, idx)
            /\ s_last' = LastOf(req, FALSE, <<>>, <<>>)
            /\ Requested(req)
            /\ UNCHANGED <<bitmap_bufs, held_bm, s_fresh>>

\* scratch.return_bitmap(bm) for the idx-th bitmap held, after the caller has
\* set its bits or left it as it was
ReturnBitmap ==
    \E idx \in 1..Len(held_bm), written \in BOOLEAN :
        LET req == Request("return_bitmap", 0, idx)
            bm  == IF written THEN new_all_valid(held_bm[idx].len) ELSE held_bm[idx]
        IN  /\ MayRequest(req, -1)
            /\ bitmap_bufs' = return_bitmap(bitmap_bufs, bm)
            /\ held_bm' = RemoveAt(held_bm, idx)
            /\ s_last' = LastOf(req, FALSE, <<>>, <<>>)
            /\ Requested(req)
            /\ UNCHANGED <<f64_bufs, held_f64, s_fresh>>

\* the end of an iteration of the caller's loop: everything has been returned
EndIteration ==
    /\ held_f64 = <<>> /\ held_bm = <<>>
    /\ s_prog # <<>>
    /\ s_iter = 0 \/ s_pc > Len(s_prog)
    /\ s_iter < MaxIter
    /\ s_iter' = s_iter + 1
    /\ s_pc' = 1
    /\ s_fresh' = 0
    /\ UNCHANGED <<f64_bufs, bitmap_bufs, held_f64, held_bm, s_prog, s_last, not_scr>>

InitScratch == D4Idle /\ PlanIdle /\ KernIdle /\ GroupIdle /\ ScratchNew /\ BitmapIdle /\ RollIdle /\ OriIdle /\ SegIdle
NextScratch ==
    \/ GetF64
    \/ GetF64Uninit
    \/ GetBitmap
    \/ ReturnF64
    \/ ReturnBitmap
    \/ EndIteration
SpecScratch == InitScratch /\ [][NextScratch]_vars


\* the warm-up iteration was one get_f64 / return_f64 cycle of one size
F64Cycle ==
    \E len \in ScratchLens :
        s_prog = <<Request("get_f64", len, 0), Request("return_f64", 0, 1)>>

\* the warm-up iteration was one get_bitmap / return_bitmap cycle of one size
BitmapCycle ==
    \E len \in ScratchLens :
        s_prog = <<Request("get_bitmap", len, 0), Request("return_bitmap", 0, 1)>>

\* C13 (as stated): once the warm-up iteration has run, a later iteration of
\* the same requests makes no fresh allocation.
C13_SteadyStateZeroAlloc ==
    s_iter >= 1 => s_fresh = 0

\* C14: after a warm-up get_f64(len) / return_f64 cycle, every later cycle
\* with the same len makes no fresh allocation and the pool holds one buffer
\* when none is leased and none when one is; likewise for bitmaps.
C14_SameSizeReuse ==
    /\ (s_iter >= 1 /\ F64Cycle) =>
          /\ s_fresh = 0
          /\ stats_of(f64_bufs, bitmap_bufs).f64_bufs = 1 - Len(held_f64)
    /\ (s_iter >= 1 /\ BitmapCycle) =>
          /\ s_fresh = 0
          /\ stats_of(f64_bufs, bitmap_bufs).bitmap_bufs = 1 - Len(held_bm)

\* C14 witness: in the second cycle after the warm-up, get_f64 has just taken
\* the pooled buffer and left the pool empty.
C14_Witness ==
    /\ s_iter >= 2
    /\ F64Cycle
    /\ s_last.op = "get_f64"
    /\ ~s_last.fresh
    /\ Len(held_f64) = 1
    /\ f64_bufs = <<>>

\* C15 (as stated): get_f64(len) returns len zeros, reusing a pooled buffer
\* whenever any pooled buffer has capacity >= len and allocating only when
\* none has.
C15_GetF64ReusesAnySufficient ==
    s_last.op = "get_f64" =>
        /\ s_last.f64[1].len = s_last.len
        /\ s_last.f64[1].zero
        /\ s_last.fresh <=>
              ~(\E k \in 1..Len(s_last.f64_before) : s_last.f64_before[k].cap >= s_last.len)

\* C16 (as stated): get_f64_uninit(len) returns a buffer of length len and
\* capacity >= len in every pool state.
C16_UninitHasLength ==
    s_last.op = "get_f64_uninit" =>
        /\ s_last.f64[1].len = s_last.len
        /\ s_last.f64[1].cap >= s_last.len

\* C17: get_bitmap(len) returns a bitmap of length len: the pooled one on top
\* if its length is len, else a new all-null one; a get_* takes at most one
\* entry from its pool and a return_* adds exactly one.
C17_GetBitmapExactLength ==
    LET before == stats_of(s_last.f64_before, s_last.bm_before)
        after  == stats_of(f64_bufs, bitmap_bufs)
    IN  /\ s_last.op = "get_bitmap" =>
              /\ s_last.bm[1].len = s_last.len
              /\ ~s_last.fresh =>
                    /\ s_last.bm_before # <<>>
                    /\ s_last.bm[1] = Last(s_last.bm_before)
                    /\ Last(s_last.bm_before).len = s_last.len
              /\ s_last.fresh => s_last.bm[1] = new_all_null(s_last.len)
              /\ before.bitmap_bufs - after.bitmap_bufs \in {0, 1}
              /\ before.f64_bufs = after.f64_bufs
        /\ s_last.op \in {"get_f64", "get_f64_uninit"} =>
              /\ before.f64_bufs - after.f64_bufs \in {0, 1}
              /\ before.bitmap_bufs = after.bitmap_bufs
        /\ s_last.op = "return_f64" =>
              /\ after.f64_bufs = before.f64_bufs + 1
              /\ before.bitmap_bufs = after.bitmap_bufs
        /\ s_last.op = "return_bitmap" =>
              /\ after.bitmap_bufs = before.bitmap_bufs + 1
              /\ before.f64_bufs = after.f64_bufs

\* C17 witness: get_bitmap has found a pooled bitmap of another length on
\* top, dropped it and returned a new all-null bitmap.
C17_Witness ==
    /\ s_last.op = "get_bitmap"
    /\ s_last.bm_before # <<>>
    /\ Last(s_last.bm_before).len # s_last.len
    /\ s_last.fresh
    /\ Len(bitmap_bufs) = Len(s_last.bm_before) - 1


-----------------------------------------------------------------------------
(* SpecBitmap: three bitmaps of one length are constructed, then changed by  *)
(* set, and_into, or_into and by kernels that take b_out as out_valid.       *)

MaxBmOps == 2    \* operations applied to the bitmaps after construction

\* lengths: within one word, one word and a partial one, two full words
BmLens == {3, WordBits + 2, 2 * WordBits}

\* positions set: the first, the last, and the first of the second word
BmPositions(len) == {i \in {0, WordBits, len - 1} : i < len}

\* lags of the kernel calls: within a word and one whole word
BmLags == {1, WordBits}

\* Bitmap::and_into: out.bits[w] = a.bits[w] & b.bits[w] for w < a.bits.len()
and_into(a, b, out) ==
    [out EXCEPT !.bits = [w \in 1..Len(out.bits) |->
        IF w <= Len(a.bits) THEN a.bits[w] \cap b.bits[w] ELSE out.bits[w]]]

\* Bitmap::or_into: out.bits[w] = a.bits[w] | b.bits[w] for w < a.bits.len()
or_into(a, b, out) ==
    [out EXCEPT !.bits = [w \in 1..Len(out.bits) |->
        IF w <= Len(a.bits) THEN a.bits[w] \cup b.bits[w] ELSE out.bits[w]]]

\* Bitmap::new_all_valid or Bitmap::new_all_null
BmNewOf(kind, len) == IF kind = "valid" THEN new_all_valid(len) ELSE new_all_null(len)

BmLast(op, on, i, v, lag, before) ==
    [op |-> op, on |-> on, i |-> i, v |-> v, lag |-> lag, before |-> before]

\* let a = Bitmap::new_all_*(len); let b = ..; let out = ..
BmNew ==
    /\ b_last.op = "none"
    /\ \E len \in BmLens, ka \in {"valid", "null"}, kb \in {"valid", "null"},
          ko \in {"valid", "null"} :
          /\ b_len' = len
          /\ b_a' = BmNewOf(ka, len)
          /\ b_b' = BmNewOf(kb, len)
          /\ b_out' = BmNewOf(ko, len)
          /\ b_last' = BmLast("new", ka, 0, FALSE, 0, b_a)
    /\ UNCHANGED <<b_steps, not_bm>>

BmStep == b_last.op # "none" /\ b_steps < MaxBmOps

\* a.set(i, v) or b.set(i, v), i < len
BmSet ==
    /\ BmStep
    /\ \E on \in {"a", "b"}, i \in BmPositions(b_len), v \in BOOLEAN :
          /\ b_a' = IF on = "a" THEN bm_set(b_a, i, v) ELSE b_a
          /\ b_b' = IF on = "b" THEN bm_set(b_b, i, v) ELSE b_b
          /\ b_last' = BmLast("set", on, i, v, 0, IF on = "a" THEN b_a ELSE b_b)
    /\ b_steps' = b_steps + 1
    /\ UNCHANGED <<b_len, b_out, not_bm>>

\* Bitmap::and_into(&a, &b, &mut out)
BmAndInto ==
    /\ BmStep
    /\ b_out' = and_into(b_a, b_b, b_out)
    /\ b_last' = BmLast("and_into", "out", 0, FALSE, 0, b_out)
    /\ b_steps' = b_steps + 1
    /\ UNCHANGED <<b_len, b_a, b_b, not_bm>>

\* Bitmap::or_into(&a, &b, &mut out)
BmOrInto ==
    /\ BmStep
    /\ b_out' = or_into(b_a, b_b, b_out)
    /\ b_last' = BmLast("or_into", "out", 0, FALSE, 0, b_out)
    /\ b_steps' = b_steps + 1
    /\ UNCHANGED <<b_len, b_a, b_b, not_bm>>

\* the data buffers of the kernel calls
BmZeros == [p \in 1..b_len |-> Fin(0)]

\* dlog_masked(&mut out, &mut out_valid, &x, &a, lag) with out_valid = b_out
BmDlogMasked ==
    /\ BmStep
    /\ \E lag \in BmLags :
          /\ b_out' = dlog_masked(BmZeros, b_out, KX(b_len), b_a, lag).out_valid
          /\ b_last' = BmLast("dlog_masked", "out", 0, FALSE, lag, b_out)
    /\ b_steps' = b_steps + 1
    /\ UNCHANGED <<b_len, b_a, b_b, not_bm>>

\* dlog_wordwise(&mut out, &mut out_valid, &x, &a, lag) with out_valid = b_out
BmDlogWordwise ==
    /\ BmStep
    /\ \E lag \in BmLags :
          /\ b_out' = dlog_wordwise(BmZeros, b_out, KX(b_len), b_a, lag).out_valid
          /\ b_last' = BmLast("dlog_wordwise", "out", 0, FALSE, lag, b_out)
    /\ b_steps' = b_steps + 1
    /\ UNCHANGED <<b_len, b_a, b_b, not_bm>>

\* binary_masked(&mut out, &mut out_valid, &x, &a, &y, &b, f) with out_valid = b_out
BmBinaryMasked ==
    /\ BmStep
    /\ b_out' = binary_masked(BmZeros, b_out, KX(b_len), b_a, KY(b_len), b_b,
                              KBinaryVals(b_len)).out_valid
    /\ b_last' = BmLast("binary_masked", "out", 0, FALSE, 0, b_out)
    /\ b_steps' = b_steps + 1
    /\ UNCHANGED <<b_len, b_a, b_b, not_bm>>

InitBitmap == D4Idle /\ PlanIdle /\ KernIdle /\ GroupIdle /\ ScratchNew /\ BitmapIdle /\ RollIdle /\ OriIdle /\ SegIdle
NextBitmap ==
    \/ BmNew
    \/ BmSet
    \/ BmAndInto
    \/ BmOrInto
    \/ BmDlogMasked
    \/ BmDlogWordwise
    \/ BmBinaryMasked
SpecBitmap == InitBitmap /\ [][NextBitmap]_vars

\* ceil(len / 64) words, the length as constructed, no bit set at or past len
RepOk(bm) ==
    /\ bm.len = b_len
    /\ Len(bm.bits) = (b_len + 63) \div WordBits
    /\ \A w \in 1..Len(bm.bits) :
          \A b \in bm.bits[w] : b \in FULL /\ (w - 1) * WordBits + b < b_len

\* C18: after construction and after any set(i, v) with i < len, and_into,
\* or_into and kernel call with the bitmap as out_valid, a bitmap has
\* ceil(len / 64) words, its len as constructed and no bit set at or past len.
C18_RepresentationInvariant ==
    b_last.op # "none" => RepOk(b_a) /\ RepOk(b_b) /\ RepOk(b_out)

\* C18 witness: dlog_wordwise with a lag of one word has written the whole
\* second word of an out_valid that was all null, over two full input words.
C18_Witness ==
    /\ b_last.op = "dlog_wordwise"
    /\ b_last.lag = WordBits
    /\ b_len = 2 * WordBits
    /\ b_last.before = new_all_null(b_len)
    /\ b_out.bits[2] = FULL
    /\ b_out.bits[1] = EMPTY

\* the bitmap changed by the last set
BmTarget == IF b_last.on = "a" THEN b_a ELSE b_b

\* C19: new_all_valid reads true and new_all_null reads false at every
\* i < len; after set(i, v), get(i) = v and get(j) is as before for j # i.
C19_BitAccess ==
    /\ b_last.op = "new" =>
          \A i \in 0..(b_len - 1) :
              /\ bm_get(b_a, i) = (b_last.on = "valid")
              /\ bm_get(new_all_valid(b_len), i)
              /\ ~bm_get(new_all_null(b_len), i)
    /\ b_last.op = "set" =>
          \A j \in 0..(b_len - 1) :
              bm_get(BmTarget, j) = IF j = b_last.i THEN b_last.v
                                    ELSE bm_get(b_last.before, j)

\* C19 witness: a second set(i, false) has cleared the last bit of a bitmap
\* whose first bit an earlier set had already cleared.
C19_Witness ==
    /\ b_last.op = "set"
    /\ b_steps = 2
    /\ ~b_last.v
    /\ b_last.i = b_len - 1
    /\ b_last.i # 0
    /\ ~bm_get(b_last.before, 0)
    /\ bm_get(b_last.before, b_last.i)
    /\ bm_get(b_last.before, 1)
    /\ ~bm_get(BmTarget, 0) /\ bm_get(BmTarget, 1) /\ ~bm_get(BmTarget, b_last.i)


\* C20 (as stated): Executor::execute never returns Ok for a plan that holds
\* a Rowwise, Each or Real segment.
C20_NoSilentPassThrough ==
    (plan # None /\ outcome = "ok") =>
        \A k \in 1..Len(plan[1]) : plan[1][k].kind \notin {"Rowwise", "Each", "Real"}

-----------------------------------------------------------------------------
(* SpecExec: Executor::execute on hand-built plans, called again on the same
   Executor *)

MaxPlanSegs == 3   \* most segments in a hand-built plan
MaxCalls == 2      \* most calls of execute on one Executor

\* a segment of the given kind holding the given ops
SegmentOf(kind, start_ori, ops) == [Segment_new(kind, start_ori) EXCEPT !.ops = ops]

ExecSegments ==
    {SegmentOf("Colwise", ORI_H, <<OpStep("AddConst", <<1>>)>>),
     SegmentOf("Colwise", ORI_H, <<OpStep("Sum", <<>>)>>),
     SegmentOf("Colwise", ORI_H, <<OpStep("AddConst", <<1>>), OpStep("Generic", <<>>)>>),
     SegmentOf("Rowwise", ORI_Z, <<OpStep("Dlog", <<1>>)>>),
     SegmentOf("Each", ORI_X, <<OpStep("AddConst", <<1>>)>>),
     SegmentOf("Scalar", ORI_R, <<OpStep("Sum", <<>>)>>),
     SegmentOf("Vector", ORI_H, <<OpStep("Dlog", <<1>>)>>)}

ExecPlans == SeqsUpTo(ExecSegments, MaxPlanSegs)

ExecTables == {PlanTable, Table_new(<<"x">>, <<F64Column(<<Fin(1), Fin(2)>>)>>)}

\* the plans a later call is made with: the same plan, the empty plan, or
\* a plan of one segment
AgainPlans(p) == {p} \cup SeqsUpTo(ExecSegments, 1)

\* Executor::execute called again on the same Executor: current_value is
\* the new input, self.stats is what the earlier calls left
ExecuteAgain ==
    /\ plan # None
    /\ outcome \in {"ok", "err"}
    /\ calls < MaxCalls
    /\ \E p \in AgainPlans(plan[1]) : plan' = Some(p)
    /\ current_value' = input
    /\ ep' = 1
    /\ outcome' = "none"
    /\ calls' = calls + 1
    /\ stats0' = stats
    /\ UNCHANGED <<stats, input, ir, ip, current_ori, current_segment, segments,
                   op_trace, ori_trace, not_exec>>

InitExec ==
    /\ D4Idle
    /\ ir = <<>>
    /\ ip = 1
    /\ current_ori = ORI_H
    /\ current_segment = None
    /\ segments = <<>>
    /\ op_trace = <<>>
    /\ ori_trace = <<>>
    /\ plan \in {Some(p) : p \in ExecPlans}
    /\ input \in ExecTables
    /\ ExecutorNew
    /\ KernIdle
    /\ GroupIdle
    /\ ScratchNew /\ BitmapIdle /\ RollIdle /\ OriIdle /\ SegIdle
NextExec ==
    \/ ExecColwise
    \/ ExecRowwise
    \/ ExecOther
    \/ ExecScalarVector
    \/ ExecReturn
    \/ ExecuteAgain
SpecExec == InitExec /\ [][NextExec]_vars

\* a segment that cannot be executed: a Colwise segment holding a Sum, Mean
\* or Generic op, or a Scalar / Vector segment
FailingSegment(seg) ==
    \/ /\ seg.kind = "Colwise"
       /\ \E k \in 1..Len(seg.ops) : seg.ops[k].name \in {"Sum", "Mean", "Generic"}
    \/ seg.kind \in {"Scalar", "Vector"}

\* the counters this call of execute has added to Executor.stats
CallStats ==
    [f \in DOMAIN stats |-> stats[f] - stats0[f]]

\* C21: a failing segment ends execute with Err at that segment: no segment
\* behind a failing one is ever executed, a successful call met no failing
\* segment, and at the Err the call has counted in segments_executed exactly
\* the segments before the failing one and has attempted the failing segment
\* once (one segments_unfused for a Colwise attempt, none for Scalar/Vector).
C21_ErrStopsAtFailingSegment ==
    plan # None =>
        /\ \A k \in 1..(ep - 1) : ~FailingSegment(plan[1][k])
        /\ outcome = "ok" => \A k \in 1..Len(plan[1]) : ~FailingSegment(plan[1][k])
        /\ outcome = "err" =>
              /\ ep <= Len(plan[1])
              /\ FailingSegment(plan[1][ep])
              /\ CallStats.segments_executed = ep - 1
              /\ CallStats.segments_unfused =
                    Cardinality({k \in 1..(ep - 1) : plan[1][k].kind # "Colwise"})
                    + (IF plan[1][ep].kind = "Colwise" THEN 1 ELSE 0)
              /\ CallStats.segments_fused =
                    Cardinality({k \in 1..(ep - 1) : plan[1][k].kind = "Colwise"})

\* a second call fails at its second segment, after one completed segment
\* and with a further segment behind the failing one
C21_Witness ==
    /\ plan # None
    /\ outcome = "err"
    /\ calls = 2
    /\ ep = 2
    /\ Len(plan[1]) = 3
    /\ plan[1][2].kind = "Scalar"
    /\ stats0.segments_executed > 0


\* C22: the stats returned by a successful execute describe that call:
\* segments_executed is the number of segments of the plan, every executed
\* segment is counted as fused or as unfused, and allocations is the number of
\* fused segments of the plan times the number of columns of the table; also
\* on a later call of the same Executor.
C22_StatsDescribeTheCall ==
    (plan # None /\ outcome = "ok") =>
        /\ stats.segments_executed = Len(plan[1])
        /\ stats.segments_fused + stats.segments_unfused = stats.segments_executed
        /\ stats.allocations =
              Cardinality({k \in 1..Len(plan[1]) : from_segment(plan[1][k]) # None})
              * Len(input.columns)

-----------------------------------------------------------------------------
(* builtins/rolling_moments.rs *)

\* the moments a MomentsMask can select
Moments == {"mean", "std", "skew", "kurt", "count"}

\* MomentsMask::max_moment_needed
max_moment_needed(mask) ==
    IF "kurt" \in mask THEN 4
    ELSE IF "skew" \in mask THEN 3
    ELSE IF "std" \in mask THEN 2
    ELSE 1

\* RollingMomentsOutput::new: a vector of NaN per selected moment
RollingMomentsOutput_new(n, mask) ==
    [m \in Moments |-> IF m \in mask THEN Some([i \in 1..n |-> NaN]) ELSE None]

RECURSIVE gcd(_, _)
gcd(a, b) == IF b = 0 THEN a ELSE gcd(b, a % b)

\* the finite f64 of value num / den (den > 0), as a fraction in lowest terms
Rat(num, den) ==
    LET g == gcd(IF num < 0 THEN -num ELSE num, den)
    IN  [k |-> "fin", num |-> num \div g, den |-> den \div g]

\* a window that ends at position i itself instead of before it
window_of_current(i, window) == [start |-> i + 1 - window, end |-> i + 1]

\* let start = i - window; let end = i: the window [start, end) of position i
window_of(i, window) == [start |-> i - window, end |-> i]

RECURSIVE raw_sums(_, _, _, _, _)
\* the loop 'for j in start..end': the raw power sums and the count of the
\* values that are valid and not NaN (positions are 0-based, x is 1-based)
raw_sums(x, validity, j, end, max_moment) ==
    IF j >= end
    THEN [s1 |-> 0, s2 |-> 0, s3 |-> 0, s4 |-> 0, count |-> 0]
    ELSE LET rest == raw_sums(x, validity, j + 1, end, max_moment)
             val == x[j + 1]
         IN  IF (validity = None \/ bm_get(validity[1], j)) /\ ~is_nan(val)
             THEN [s1 |-> rest.s1 + val.v,
                   s2 |-> IF max_moment >= 2 THEN rest.s2 + val.v * val.v ELSE 0,
                   s3 |-> IF max_moment >= 3 THEN rest.s3 + val.v * val.v * val.v ELSE 0,
                   s4 |-> IF max_moment >= 4
                          THEN rest.s4 + val.v * val.v * val.v * val.v ELSE 0,
                   count |-> rest.count + 1]
             ELSE rest

\* the moments written at one position from the raw sums of its window; NaN
\* where nothing is written. std is sqrt(var), skew is mu3 / mu2^1.5.
moments_from(s, min_periods, mask) ==
    LET c == s.count
        computed == c >= min_periods
        higher == computed /\ mask \cap {"std", "skew", "kurt"} # {} /\ c >= 2
        vn == IF c * s.s2 - s.s1 * s.s1 > 0 THEN c * s.s2 - s.s1 * s.s1 ELSE 0
        mu3n == c * c * s.s3 - 3 * c * s.s1 * s.s2 + 2 * s.s1 * s.s1 * s.s1
        mu4n == c * c * c * s.s4 - 4 * c * c * s.s1 * s.s3
                + 6 * c * s.s1 * s.s1 * s.s2 - 3 * s.s1 * s.s1 * s.s1 * s.s1
    IN  [mean  |-> IF ~computed \/ c = 0 THEN NaN ELSE Rat(s.s1, c),
         count |-> IF computed THEN Rat(c, 1) ELSE NaN,
         std   |-> IF higher
                   THEN [k |-> "sqrt", of |-> Rat(vn, c * (c - 1))]
                   ELSE NaN,
         skew  |-> IF higher /\ vn > 0 /\ c >= 3
                   THEN [k |-> "over_pow_1_5", mu3 |-> Rat(mu3n, c * c * c),
                         mu2 |-> Rat(vn, c * c)]
                   ELSE NaN,
         kurt  |-> IF higher /\ vn > 0 /\ c >= 4
                   THEN Rat(mu4n - 3 * vn * vn, vn * vn)
                   ELSE NaN]

\* rolling_moments_past_only_f64 with rolling_moments_all_valid (validity
\* None) and rolling_moments_with_validity (validity Some)
rolling_moments_past_only_f64(x, window, min_periods, mask, validity) ==
    LET n == Len(x)
        minp == IF min_periods = None THEN window ELSE min_periods[1]
        mm == max_moment_needed(mask)
        at(i) == LET w == window_of(i, window)
                 IN  moments_from(raw_sums(x, validity, w.start, w.end, mm), minp, mask)
    IN  [m \in Moments |->
            IF m \in mask
            THEN Some([i1 \in 1..n |->
                         IF i1 - 1 < window
                         THEN RollingMomentsOutput_new(n, mask)[m][1][i1]
                         ELSE at(i1 - 1)[m]])
            ELSE None]


\* ---- SpecRoll: rolling_moments_past_only_f64 on an input, then on a second
\* input that differs from the first from a position p on

MaxRollLen == 3    \* longest enumerated input slice
MaxWindow == 4     \* largest window

RollValues == {Fin(1), Fin(2), NaN}
RollExample == <<Fin(1), Fin(2), Fin(3), Fin(4), Fin(5)>>
RollInputs ==
    SeqsUpTo(RollValues, MaxRollLen)
    \cup {RollExample, <<Fin(2), Fin(1), Fin(1), Fin(2), Fin(1)>>,
          <<Fin(1), NaN, Fin(2), Fin(2), Fin(1)>>}
RollValidities(n) ==
    {None, Some(new_all_valid(n))}
    \cup {Some(bm_set(new_all_valid(n), q, FALSE)) : q \in {1} \cap (0..(n - 1))}
RollMasks == {{"mean"}, Moments}
RollMinPeriods == {None, Some(0), Some(1)}

RollInit ==
    /\ r_x \in RollInputs
    /\ r_validity \in RollValidities(Len(r_x))
    /\ r_window \in 1..MaxWindow
    /\ r_minp \in RollMinPeriods
    /\ r_mask \in RollMasks
    /\ r_out = None
    /\ r_change = [p |-> 0, all |-> FALSE]
    /\ r_x2 = <<>>
    /\ r_validity2 = None
    /\ r_out2 = None

\* positions of x the change touches: p, or p and every later position
Changed(n, ch) == {i \in 0..(n - 1) : i = ch.p \/ (ch.all /\ i > ch.p)}

\* the bitmap with the validity bits at the given positions inverted
FlipBits(bm, T) ==
    [len |-> bm.len,
     bits |-> [w \in 1..Len(bm.bits) |->
                  (bm.bits[w] \ {i % WordBits : i \in {t \in T : t \div WordBits = w - 1}})
                  \cup {i % WordBits :
                          i \in {t \in T : /\ t \div WordBits = w - 1
                                            /\ (t % WordBits) \notin bm.bits[w]}}]]

RollCall ==
    /\ r_out = None
    /\ r_out' = Some(rolling_moments_past_only_f64(r_x, r_window, r_minp, r_mask,
                                                   r_validity))
    /\ UNCHANGED <<r_x, r_validity, r_window, r_minp, r_mask, r_change, r_x2,
                   r_validity2, r_out2, not_roll>>

\* the same call on an input whose elements (and validity bits) from position
\* p on, or at position p alone, are different
RollCallChanged ==
    /\ r_out # None
    /\ r_out2 = None
    /\ \E p \in 0..(Len(r_x) - 1), all \in BOOLEAN, v \in RollValues :
          LET ch == [p |-> p, all |-> all]
              T == Changed(Len(r_x), ch)
              x2 == [i1 \in 1..Len(r_x) |-> IF (i1 - 1) \in T THEN v ELSE r_x[i1]]
              validity2 == IF r_validity = None THEN None
                           ELSE Some(FlipBits(r_validity[1], T))
          IN  /\ r_change' = ch
              /\ r_x2' = x2
              /\ r_validity2' = validity2
              /\ r_out2' = Some(rolling_moments_past_only_f64(x2, r_window, r_minp,
                                                              r_mask, validity2))
    /\ UNCHANGED <<r_x, r_validity, r_window, r_minp, r_mask, r_out, not_roll>>

InitRoll ==
    D4Idle /\ PlanIdle /\ KernIdle /\ GroupIdle /\ ScratchNew /\ BitmapIdle
    /\ RollInit /\ OriIdle /\ SegIdle
NextRoll ==
    \/ RollCall
    \/ RollCallChanged
SpecRoll == InitRoll /\ [][NextRoll]_vars

\* C23: every output of rolling_moments_past_only_f64 is NaN at positions
\* i < window; an output at position i is the same for two inputs that agree
\* (values and validity bits) on positions i-window .. i-1, so a change at
\* position p or later leaves the outputs at positions <= p as they were; on
\* [1,2,3,4,5] with window 3 the means are NaN, NaN, NaN, 2, 3.
C23_PastOnlyWindow ==
    /\ r_out # None =>
          /\ \A m \in r_mask : \A i \in 0..(Len(r_x) - 1) :
                i < r_window => r_out[1][m][1][i + 1] = NaN
          /\ (/\ r_x = RollExample /\ r_window = 3 /\ r_minp = None
              /\ r_validity \in {None, Some(new_all_valid(Len(r_x)))})
             => r_out[1]["mean"][1] = <<NaN, NaN, NaN, Rat(2, 1), Rat(3, 1)>>
    /\ r_out2 # None =>
          \A m \in r_mask : \A i \in 0..(Len(r_x) - 1) :
             (i <= r_change.p \/ (~r_change.all /\ i - r_window > r_change.p))
             => r_out2[1][m][1][i + 1] = r_out[1][m][1][i + 1]

\* the element at a position p >= window was changed where mean and skew
\* were set, and the outputs behind p did change
C23_Witness ==
    /\ r_out # None
    /\ r_out2 # None
    /\ r_change.p >= r_window
    /\ r_x2[r_change.p + 1] # r_x[r_change.p + 1]
    /\ r_out[1]["mean"][1][r_change.p + 1] # NaN
    /\ r_out2[1] # r_out[1]
    /\ r_out[1]["skew"] # None
    /\ r_out[1]["skew"][1][r_change.p + 1] # NaN

-----------------------------------------------------------------------------
(* builtins/ori_ops.rs: operations dispatched on the class of a TableView *)

\* an operation's outcome: the value it returns, or the panic it raises
Returned(value) == [tag |-> "ok", msg |-> "", value |-> Some(value)]
Panicked(msg)   == [tag |-> "panic", msg |-> msg, value |-> None]

\* Table::row_count, Table::col_count
row_count(table) == IF Len(table.columns) = 0 THEN 0 ELSE Len(table.columns[1].data)
col_count(table) == Len(table.columns)

\* TableView::ori_class
ori_class(view) == class(view.ori)

RECURSIVE nan_sum(_, _)
\* the loops 'if !val.is_nan() { sum += val; has_valid = true }' over
\* vals[k..]: <<sum, has_valid>>
nan_sum(vals, k) ==
    IF k > Len(vals)
    THEN <<Fin(0), FALSE>>
    ELSE LET rest == nan_sum(vals, k + 1)
         IN  IF is_nan(vals[k]) THEN rest ELSE <<f_add(vals[k], rest[1]), TRUE>>

\* if has_valid { sum } else { NAN }
sum_or_nan(vals) == IF nan_sum(vals, 1)[2] THEN nan_sum(vals, 1)[1] ELSE NaN

\* the indices of the F64 columns, in column order
f64_indices(table) ==
    SelectSeq([c \in 1..Len(table.columns) |-> c],
              LAMBDA c : table.columns[c].variant = "F64")

\* the values of row `row` (1-based) in the F64 columns
row_values(table, row) ==
    [r \in 1..Len(f64_indices(table)) |-> table.columns[f64_indices(table)[r]].data[row]]

\* the position of column c among the F64 columns
result_idx(table, c) ==
    CHOOSE r \in 1..Len(f64_indices(table)) : f64_indices(table)[r] = c

\* sum_colwise: one value per column, NaN for a temporal column
sum_colwise(table) ==
    F64Column([c \in 1..Len(table.columns) |->
                  IF table.columns[c].variant = "F64"
                  THEN sum_or_nan(table.columns[c].data)
                  ELSE NaN])

\* sum_rowwise_tiled: one value per row (the tiles partition the rows)
sum_rowwise_tiled(table) ==
    LET nrows == row_count(table)
    IN  IF nrows = 0 \/ col_count(table) = 0
        THEN F64Column([r \in 1..nrows |-> Fin(0)])
        ELSE IF Len(f64_indices(table)) = 0
        THEN F64Column([r \in 1..nrows |-> NaN])
        ELSE F64Column([r \in 1..nrows |-> sum_or_nan(row_values(table, r))])

RECURSIVE all_f64_values(_, _)
\* the values of the F64 columns c.. of the table, one column after another
all_f64_values(table, c) ==
    IF c > Len(table.columns) THEN <<>>
    ELSE (IF table.columns[c].variant = "F64" THEN table.columns[c].data ELSE <<>>)
         \o all_f64_values(table, c + 1)

\* sum_scalar: one value for the table
sum_scalar(table) == F64Column(<<sum_or_nan(all_f64_values(table, 1))>>)

\* ori_ops::sum
ori_ops_sum(view) ==
    CASE ori_class(view) = "ColwiseLike" -> Returned(sum_colwise(view.table))
      [] ori_class(view) = "RowwiseLike" -> Returned(sum_rowwise_tiled(view.table))
      [] ori_class(view) = "Real" -> Returned(sum_scalar(view.table))
      [] ori_class(view) = "Each" ->
            Panicked("sum not defined for Each (X) orientation - use for broadcast context only")

\* x > 0.0 (false for NaN)
gt_zero(x) == x.k = "pinf" \/ (x.k = "fin" /\ x.v > 0)

\* compute_dlog_sequence
compute_dlog_sequence(values) ==
    [i \in 1..Len(values) |->
        IF i >= 2 /\ ~is_nan(values[i]) /\ ~is_nan(values[i - 1]) /\ gt_zero(values[i - 1])
        THEN f_ln(f_div(values[i], values[i - 1]))
        ELSE NaN]

\* compute_wmean_sequence
compute_wmean_sequence(values, window) ==
    [i \in 1..Len(values) |->
        IF window = 0 \/ i - 1 < window - 1
        THEN NaN
        ELSE LET win == SubSeq(values, i + 1 - window, i)
                 count == Cardinality({j \in 1..window : ~is_nan(win[j])})
             IN  IF count = 0 THEN NaN ELSE f_div(nan_sum(win, 1)[1], Fin(count))]

\* wmean0 on an F64 column: the rolling mean over [i - window + 1, i] that
\* skips NaN, NaN for the first window - 1 positions
wmean0(data, window) == compute_wmean_sequence(data, window)

\* dlog_colwise: dlog_column with lag 1 on each F64 column, temporal cloned
dlog_colwise(table) ==
    Table_new(table.names,
              [c \in 1..Len(table.columns) |->
                  IF table.columns[c].variant = "F64"
                  THEN F64Column(dlog_column(table.columns[c].data, 1))
                  ELSE table.columns[c]])

\* w5_colwise: wmean0 on each F64 column, temporal cloned
w5_colwise(table, window) ==
    Table_new(table.names,
              [c \in 1..Len(table.columns) |->
                  IF table.columns[c].variant = "F64"
                  THEN F64Column(wmean0(table.columns[c].data, window))
                  ELSE table.columns[c]])

\* dlog_rowwise: compute_dlog_sequence on each row of the F64 columns
dlog_rowwise(table) ==
    IF row_count(table) = 0 \/ col_count(table) = 0
    THEN Table_new(table.names, table.columns)
    ELSE Table_new(table.names,
             [c \in 1..Len(table.columns) |->
                 IF table.columns[c].variant = "F64"
                 THEN F64Column([r \in 1..row_count(table) |->
                         compute_dlog_sequence(row_values(table, r))[result_idx(table, c)]])
                 ELSE table.columns[c]])

\* w5_rowwise: compute_wmean_sequence on each row of the F64 columns
w5_rowwise(table, window) ==
    IF row_count(table) = 0 \/ col_count(table) = 0
    THEN Table_new(table.names, table.columns)
    ELSE Table_new(table.names,
             [c \in 1..Len(table.columns) |->
                 IF table.columns[c].variant = "F64"
                 THEN F64Column([r \in 1..row_count(table) |->
                         compute_wmean_sequence(row_values(table, r), window)
                             [result_idx(table, c)]])
                 ELSE table.columns[c]])

\* A dlog that falls through to the column path for Real and Each.
ori_ops_dlog_no_panic(view) ==
    CASE ori_class(view) = "RowwiseLike" -> Returned(dlog_rowwise(view.table))
      [] OTHER -> Returned(dlog_colwise(view.table))

\* ori_ops::dlog
ori_ops_dlog(view) ==
    CASE ori_class(view) = "ColwiseLike" -> Returned(dlog_colwise(view.table))
      [] ori_class(view) = "RowwiseLike" -> Returned(dlog_rowwise(view.table))
      [] ori_class(view) = "Real" ->
            Panicked("dlog not defined for Real (R) orientation - requires sequence")
      [] ori_class(view) = "Each" ->
            Panicked("dlog not defined for Each (X) orientation - requires sequence")

\* ori_ops::w5 (const WINDOW: usize = 5)
ori_ops_w5(view) ==
    CASE ori_class(view) = "ColwiseLike" -> Returned(w5_colwise(view.table, WINDOW))
      [] ori_class(view) = "RowwiseLike" -> Returned(w5_rowwise(view.table, WINDOW))
      [] ori_class(view) = "Real" ->
            Panicked("w5 not defined for Real (R) orientation - requires sequence")
      [] ori_class(view) = "Each" ->
            Panicked("w5 not defined for Each (X) orientation - requires sequence")

\* ---- SpecOri: one orientation-aware operation applied to a TableView

OriTables ==
    {Table_new(<<>>, <<>>),
     Table_new(<<"a", "b">>, <<F64Column(<<Fin(1), Fin(2), Fin(3)>>),
                               F64Column(<<Fin(4), Fin(5), Fin(6)>>)>>),
     Table_new(<<"d", "x">>, <<DateColumn(<<Fin(10), Fin(11)>>),
                               F64Column(<<NaN, Fin(2)>>)>>),
     Table_new(<<"d">>, <<DateColumn(<<Fin(10), Fin(11)>>)>>),
     Table_new(<<"x">>, <<F64Column(<<>>)>>),
     Table_new(<<"prices">>,
               <<F64Column(<<Fin(100), Fin(102), Fin(101), Fin(103), Fin(105), Fin(104)>>)>>),
     Table_new(<<"a", "b", "c", "d", "e">>,
               <<F64Column(<<Fin(1), NaN>>), F64Column(<<Fin(2), NaN>>),
                 F64Column(<<Fin(4), NaN>>), F64Column(<<NaN, NaN>>),
                 F64Column(<<Fin(8), Fin(0)>>)>>)}

OriInit ==
    /\ o_view \in {with_ori(t, o) : t \in OriTables, o \in AllOris}
    /\ o_call = "none"
    /\ o_result = None

CallSum ==
    /\ o_call = "none"
    /\ o_call' = "sum"
    /\ o_result' = Some(ori_ops_sum(o_view))
    /\ UNCHANGED <<o_view, not_ori>>

CallDlog ==
    /\ o_call = "none"
    /\ o_call' = "dlog"
    /\ o_result' = Some(ori_ops_dlog(o_view))
    /\ UNCHANGED <<o_view, not_ori>>

CallW5 ==
    /\ o_call = "none"
    /\ o_call' = "w5"
    /\ o_result' = Some(ori_ops_w5(o_view))
    /\ UNCHANGED <<o_view, not_ori>>

InitOri ==
    D4Idle /\ PlanIdle /\ KernIdle /\ GroupIdle /\ ScratchNew /\ BitmapIdle
    /\ RollIdle /\ OriInit /\ SegIdle
NextOri ==
    \/ CallSum
    \/ CallDlog
    \/ CallW5
SpecOri == InitOri /\ [][NextOri]_vars

\* C24: dlog and w5 on a view of class Real or Each, and sum on a view of class
\* Each, panic with a message naming the operation and the orientation and
\* return nothing; on a ColwiseLike or RowwiseLike view all three return a
\* result: a table of the shape of the input for dlog and w5, a column of one
\* value per column (ColwiseLike) or per row (RowwiseLike) for sum.
C24_UnsupportedDispatchPanics ==
    o_call # "none" =>
        LET cls == IF o_view.ori.tag = "D4"
                   THEN (IF o_view.ori.swap THEN "RowwiseLike" ELSE "ColwiseLike")
                   ELSE o_view.ori.tag
            r == o_result[1]
            t == o_view.table
            unsupported == \/ o_call \in {"dlog", "w5"} /\ cls \in {"Real", "Each"}
                           \/ o_call = "sum" /\ cls = "Each"
        IN  /\ unsupported =>
                /\ r.tag = "panic"
                /\ r.value = None
                /\ \E rest \in {" (R) orientation - requires sequence",
                                 " (X) orientation - requires sequence",
                                 " (X) orientation - use for broadcast context only"} :
                       r.msg = o_call \o " not defined for " \o cls \o rest
            /\ cls \in {"ColwiseLike", "RowwiseLike"} =>
                /\ r.tag = "ok"
                /\ r.value # None
                /\ o_call \in {"dlog", "w5"} =>
                      /\ r.value[1].names = t.names
                      /\ Len(r.value[1].columns) = Len(t.columns)
                      /\ \A c \in 1..Len(t.columns) :
                            /\ r.value[1].columns[c].variant = t.columns[c].variant
                            /\ Len(r.value[1].columns[c].data) = Len(t.columns[c].data)
                /\ o_call = "sum" =>
                      /\ r.value[1].variant = "F64"
                      /\ Len(r.value[1].data) =
                            IF cls = "ColwiseLike" THEN Len(t.columns)
                            ELSE IF Len(t.columns) = 0 THEN 0
                            ELSE Len(t.columns[1].data)

\* dlog was called on a view of class Each
C24_Witness ==
    /\ o_call = "dlog"
    /\ o_view.ori = ORI_X
    /\ Len(o_view.table.columns) = 2
    /\ o_result[1].tag = "panic"

-----------------------------------------------------------------------------
(* Further properties of the kernels (SpecKernel) *)

\* C25: after dlog_masked and dlog_scale_add_masked with 0 < lag < n,
\* out_valid.get(i) is false at every i < lag and equals x_valid.get(i) AND
\* x_valid.get(i - lag) at every i >= lag; with lag = 0 or lag >= n every
\* output validity bit is false.
C25_LaggedValidity ==
    k_call \in {"dlog_masked", "dlog_scale_add_masked"} =>
        \A i \in KIdx :
            bm_get(k_out_valid, i) =
                IF k_lag = 0 \/ k_lag >= k_n \/ i < k_lag
                THEN FALSE
                ELSE bm_get(k_x_valid, i) /\ bm_get(k_x_valid, i - k_lag)

\* dlog_scale_add_masked has run with 0 < lag < n over a bitmap handed in all
\* valid, on an input valid at a position of the prefix, valid at i and
\* i - lag for one i, and valid at i but not at i - lag for another
C25_Witness ==
    /\ k_call = "dlog_scale_add_masked"
    /\ k_valid0 = new_all_valid(k_n)
    /\ 0 < k_lag /\ k_lag < k_n
    /\ \E i \in KIdx : i < k_lag /\ bm_get(k_x_valid, i)
    /\ \E i \in KIdx : i >= k_lag /\ bm_get(k_x_valid, i) /\ bm_get(k_x_valid, i - k_lag)
    /\ \E i \in KIdx : i >= k_lag /\ bm_get(k_x_valid, i) /\ ~bm_get(k_x_valid, i - k_lag)

\* the kernel of the call, run again on the same inputs with the given bitmap
\* as out_valid
KernelOn(out_valid) ==
    CASE k_call = "dlog_masked" ->
            dlog_masked(k_out0, out_valid, KX(k_n), k_x_valid, k_lag)
      [] k_call = "dlog_scale_add_masked" ->
            dlog_scale_add_masked(k_out0, out_valid, KX(k_n), k_x_valid, k_lag, KA, KB)
      [] k_call = "dlog_wordwise" ->
            dlog_wordwise(k_out0, out_valid, KX(k_n), k_x_valid, k_lag)
      [] k_call = "dlog_scale_add_wordwise" ->
            dlog_scale_add_wordwise(k_out0, out_valid, KX(k_n), k_x_valid, k_lag, KA, KB)
      [] k_call = "unary_masked" ->
            unary_masked(k_out0, out_valid, KX(k_n), k_x_valid, KUnaryVals(k_n))
      [] k_call = "ln_scale_add_masked" ->
            ln_scale_add_masked(k_out0, out_valid, KX(k_n), k_x_valid, KA, KB)
      [] k_call = "binary_masked" ->
            binary_masked(k_out0, out_valid, KX(k_n), k_x_valid, KY(k_n), k_y_valid,
                          KBinaryVals(k_n))
      [] k_call = "sub_mul_add_masked" ->
            sub_mul_add_masked(k_out0, out_valid, KX(k_n), k_x_valid, KY(k_n), k_y_valid,
                               KA, KB)

\* C30: every masked and word-wise kernel handed an out_valid bitmap that is
\* not all null (one left all valid by an earlier use) leaves at every i < n
\* the bit it leaves when handed a fresh all-null bitmap.
C30_StaleValidityNeverLeaks ==
    (k_call # "none" /\ k_valid0 # new_all_null(k_n)) =>
        \A m \in {KernelOn(new_all_null(k_n))} :
            \A i \in KIdx : bm_get(k_out_valid, i) = bm_get(m.out_valid, i)

\* dlog_wordwise has run over a bitmap handed in all valid and has left bits
\* cleared in the prefix, in a word it skipped as all null, and behind it
C30_Witness ==
    /\ k_call = "dlog_wordwise"
    /\ k_valid0 = new_all_valid(k_n)
    /\ k_n = 2 * WordBits + 2
    /\ k_lag = 1
    /\ k_x_valid.bits[2] = EMPTY
    /\ ~bm_get(k_out_valid, 0)
    /\ ~bm_get(k_out_valid, WordBits + 3)
    /\ \E i \in KIdx : bm_get(k_out_valid, i)

-----------------------------------------------------------------------------
(* Further properties of the planner and the fused kernel (SpecPlan) *)

\* C26: a step that processes OriRel(o) with the current orientation and o
\* both D4 sets the current orientation to compose(current, o) and flushes the
\* open segment exactly when the class changed, leaving it open otherwise, so
\* that a following non-reducer op is pushed onto it; when the current
\* orientation or o is Each/Real it flushes and sets the current orientation
\* to o.
C26_RelativeStep ==
    [][ /\ (plan = None /\ ip <= Len(ir) /\ ip' = ip + 1 /\ ir[ip].step = "OriRel") =>
             LET o == ir[ip].ori
                 flushed ==
                     /\ current_segment' = None
                     /\ segments' = IF current_segment # None
                                    THEN Append(segments, current_segment[1])
                                    ELSE segments
             IN  IF current_ori.tag = "D4" /\ o.tag = "D4"
                 THEN /\ current_ori' = compose(current_ori, o)[1]
                      /\ IF current_ori'.swap # current_ori.swap
                         THEN flushed
                         ELSE UNCHANGED <<current_segment, segments>>
                 ELSE /\ flushed
                      /\ current_ori' = o
        /\ (/\ plan = None /\ ip <= Len(ir) /\ ip' = ip + 1 /\ ir[ip].step = "Op"
            /\ ir[ip].name \notin {"Sum", "Mean"} /\ current_segment # None) =>
             /\ segments' = segments
             /\ current_segment' # None
             /\ current_segment'[1].kind = current_segment[1].kind
             /\ current_segment'[1].ops =
                   Append(current_segment[1].ops, [name |-> ir[ip].name, args |-> ir[ip].args])
      ]_vars

\* an op, then a class-preserving OriRel that left its segment open, then a
\* class-changing OriRel that flushed it
C26_Witness ==
    /\ plan = None
    /\ ip = 4
    /\ ir[1] = Op("Dlog", <<1>>)
    /\ ir[2] = OriRel(ORI_N)
    /\ ir[3] = OriRel(ORI_Z)
    /\ current_ori = compose(compose(ORI_H, ORI_N)[1], ORI_Z)[1]
    /\ current_segment = None
    /\ Len(segments) = 1

-----------------------------------------------------------------------------
(* SpecSeg: ColwiseKernel::from_segment on a segment of any kind, then
   ColwiseKernel::execute of the kernel it returned on a table *)

MaxSegOps == 2     \* most ops in a segment handed to from_segment

SegKinds == {"Colwise", "Rowwise", "Each", "Real", "Scalar", "Vector"}
SegOps ==
    {OpStep("Dlog", <<1>>), OpStep("Dlog", <<>>), OpStep("AddConst", <<2>>),
     OpStep("AddConst", <<>>), OpStep("SubConst", <<1>>), OpStep("MulConst", <<-2>>),
     OpStep("DivConst", <<2>>), OpStep("W5", <<>>), OpStep("Cs1", <<>>),
     OpStep("Sum", <<>>), OpStep("Mean", <<>>), OpStep("Generic", <<>>)}
SegTables ==
    {PlanTable,
     Table_new(<<>>, <<>>),
     Table_new(<<"t", "a", "b">>,
               <<TimestampColumn(<<Fin(7)>>), F64Column(<<Fin(4)>>), F64Column(<<NaN>>)>>),
     Table_new(<<"d", "x">>, <<DateColumn(<<>>), F64Column(<<>>)>>)}

SegInit ==
    /\ fs_seg \in {SegmentOf(kind, ORI_H, ops) :
                      kind \in SegKinds, ops \in SeqsUpTo(SegOps, MaxSegOps)}
    /\ fs_table \in SegTables
    /\ fs_called = FALSE
    /\ fs_kernel = None
    /\ fs_result = None

FromSegment ==
    /\ ~fs_called
    /\ fs_called' = TRUE
    /\ fs_kernel' = from_segment(fs_seg)
    /\ UNCHANGED <<fs_seg, fs_table, fs_result, not_seg>>

\* kernel.execute(&table): the table is borrowed, the result is a new Table
KernelExecute ==
    /\ fs_kernel # None
    /\ fs_result = None
    /\ fs_result' = Some(kernel_execute(fs_kernel[1], fs_table))
    /\ UNCHANGED <<fs_seg, fs_table, fs_called, fs_kernel, not_seg>>

InitSeg ==
    D4Idle /\ PlanIdle /\ KernIdle /\ GroupIdle /\ ScratchNew /\ BitmapIdle
    /\ RollIdle /\ OriIdle /\ SegInit
NextSeg ==
    \/ FromSegment
    \/ KernelExecute
SpecSeg == InitSeg /\ [][NextSeg]_vars

\* the FusedOp variant the claim pairs with an op of the whitelist
FusedVariant(name) ==
    CASE name = "W5"  -> "WMean5"
      [] name = "Cs1" -> "Cumsum"
      [] OTHER        -> name

\* C27: from_segment returns a kernel exactly when the segment's kind is
\* Colwise and every op is one of Dlog, AddConst, SubConst, MulConst,
\* DivConst, W5, Cs1; the kernel has one FusedOp per op of the segment, of the
\* matching variant, in the segment's order; otherwise it returns None.
C27_FusableWhitelist ==
    fs_called =>
        /\ (fs_kernel # None) <=>
              /\ fs_seg.kind = "Colwise"
              /\ \A k \in 1..Len(fs_seg.ops) :
                    fs_seg.ops[k].name \in {"Dlog", "AddConst", "SubConst", "MulConst",
                                            "DivConst", "W5", "Cs1"}
        /\ fs_kernel # None =>
              /\ Len(fs_kernel[1]) = Len(fs_seg.ops)
              /\ \A k \in 1..Len(fs_seg.ops) :
                    fs_kernel[1][k].op = FusedVariant(fs_seg.ops[k].name)

\* from_segment returned a kernel of two different ops for a Colwise segment
C27_Witness ==
    /\ fs_called
    /\ fs_kernel # None
    /\ fs_seg.kind = "Colwise"
    /\ Len(fs_kernel[1]) = 2
    /\ fs_kernel[1][1].op = "Cumsum"
    /\ fs_kernel[1][2].op = "Dlog"

\* C28: a step of ColwiseKernel::execute leaves the table it was given as it
\* was and returns a table with the same names in the same order, the same
\* number of columns, each column of the variant and length of the input
\* column, and every Date / Timestamp column equal to the input column.
C28_ExecutePreservesShape ==
    [][fs_result' # fs_result =>
          /\ fs_table' = fs_table
          /\ fs_result' # None
          /\ fs_result'[1].names = fs_table.names
          /\ Len(fs_result'[1].columns) = Len(fs_table.columns)
          /\ \A c \in 1..Len(fs_table.columns) :
                /\ fs_result'[1].columns[c].variant = fs_table.columns[c].variant
                /\ Len(fs_result'[1].columns[c].data) = Len(fs_table.columns[c].data)
                /\ fs_table.columns[c].variant \in {"Date", "Timestamp"} =>
                      fs_result'[1].columns[c] = fs_table.columns[c]
      ]_vars

\* a kernel of two ops has run on a table of a Timestamp and two F64 columns
\* and changed an F64 column
C28_Witness ==
    /\ fs_result # None
    /\ Len(fs_kernel[1]) = 2
    /\ Len(fs_table.columns) = 3
    /\ fs_table.columns[1].variant = "Timestamp"
    /\ fs_result[1].columns[2] # fs_table.columns[2]

-----------------------------------------------------------------------------
(* The op sequence of a plan (SpecPlan) *)

RECURSIVE PlanOps(_, _)
\* the ops of the segments segs[k..], concatenated in plan order
PlanOps(segs, k) ==
    IF k > Len(segs) THEN <<>> ELSE segs[k].ops \o PlanOps(segs, k + 1)

RECURSIVE IrOps(_, _)
\* the Op steps of steps[k..] as name and args, in IR order
IrOps(steps, k) ==
    IF k > Len(steps) THEN <<>>
    ELSE (IF steps[k].step = "Op"
          THEN <<[name |-> steps[k].name, args |-> steps[k].args]>>
          ELSE <<>>) \o IrOps(steps, k + 1)

\* C29: the ops of the segments of the plan, concatenated in plan order, are
\* the Op steps of the IR (name and args) in IR order, and the plan has no
\* more segments than the IR has Op steps.
C29_OpSequencePreserved ==
    plan # None =>
        /\ PlanOps(plan[1], 1) = IrOps(ir, 1)
        /\ Len(plan[1]) <= Len(IrOps(ir, 1))

\* two different ops and a reducer behind them, planned into a segment of
\* two ops and a segment of one
C29_Witness ==
    /\ plan # None
    /\ Len(ir) = 3
    /\ ir[1] = Op("Dlog", <<1>>)
    /\ ir[2] = Op("Cs1", <<>>)
    /\ ir[3] = Op("Mean", <<>>)
    /\ Len(plan[1]) = 2
    /\ Len(plan[1][1].ops) = 2

=============================================================================
